---- MODULE Spec2Model ----
(***************************************************************************)
(* S.A.V.E disaster-response coordinator: the per-tick orchestrator        *)
(* (Simulator), the hospital ledgers (HospitalAgent), the greedy matcher   *)
(* (NegotiationEngine), the allocation filter (ConstraintChecker) and the  *)
(* failure monitor (FailureHandler).                                       *)
(*                                                                         *)
(* Conventions of the model.                                               *)
(*  - Locations lie on one axis and are integers, so the Euclidean         *)
(*    distance sqrt(dx^2 + dy^2) of the source is exactly |dx|.            *)
(*  - Fuel is kept in percent (the source keeps a float in [0,1]); the     *)
(*    configurations use even percentages, so that no value ever equals    *)
(*    the 15 percent threshold, where float rounding would decide.         *)
(*  - Scores and utilisations are exact rationals (numerator, denominator) *)
(*    compared by cross-multiplication; capacities are small, so that no   *)
(*    utilisation equals one of the thresholds 0.85 / 0.90 / 0.95 / 0.98.  *)
(*  - Timestamps (datetime.now()) are not state.                           *)
(***************************************************************************)
EXTENDS Integers, Sequences, FiniteSets, TLC

VARIABLES
    scenario,          \* config/scenario.py: the configuration initialize() reads
    running,           \* Simulator.running
    tick,              \* Simulator.tick
    hospitals,         \* Simulator.hospitals: id -> HospitalAgent
    ambulances,        \* Simulator.ambulances: id -> AmbulanceAgent
    supply,            \* Simulator.supply (SupplyAgent or None)
    government,        \* Simulator.government (GovernmentAgent or None)
    waiting_patients,  \* Simulator.waiting_patients
    gen_tick,          \* DataGenerator.tick
    current_round,     \* NegotiationEngine.current_round
    round_result,      \* NegotiationEngine.negotiation_rounds[-1] and its inputs
    active_failures,   \* FailureHandler.active_failures (the types, in order)
    monitor,           \* last check_and_handle_failures call: detected, responses
    step_result,       \* what the last Simulator.step call returned or raised
    validation         \* last ConstraintChecker.filter_valid_allocations call

vars == <<scenario, running, tick, hospitals, ambulances, supply, government,
          waiting_patients, gen_tick, current_round, round_result,
          active_failures, monitor, step_result, validation>>

(***************************************************************************)
(* Bounds of the model                                                     *)
(***************************************************************************)
MaxBeds == 2
MaxIcu == 2
MaxTick == 6

\* Python's None: as an agent or an id, as a location, as a patient dict
None == "None"
NoLocation == -1
NoPatient == [id |-> <<>>, severity |-> None, location |-> NoLocation,
              status |-> None, assigned_hospital |-> None]

\* dict insertion order of Simulator.hospitals / Simulator.ambulances
HospitalOrder == <<"hospital_a", "hospital_b">>
AmbulanceOrder == <<"AMB-1", "AMB-2">>

Range(s) == {s[i] : i \in 1..Len(s)}

Max(a, b) == IF a >= b THEN a ELSE b
Min(a, b) == IF a <= b THEN a ELSE b

RECURSIVE SumSeq(_)
SumSeq(s) == IF s = <<>> THEN 0 ELSE Head(s) + SumSeq(Tail(s))

RECURSIVE Concat(_)
Concat(ss) == IF ss = <<>> THEN <<>> ELSE Head(ss) \o Concat(Tail(ss))

(***************************************************************************)
(* config/constants.py                                                     *)
(***************************************************************************)
Severities == {"critical", "high", "medium", "low"}

SEVERITY_TO_ESI(sev) ==
    CASE sev = "critical" -> 1
      [] sev = "high"     -> 2
      [] sev = "medium"   -> 3
      [] sev = "low"      -> 4
      [] sev = "minor"    -> 5
      [] OTHER            -> 3

OXYGEN_CONSUMPTION_LPM(esi) ==
    CASE esi = 1 -> 15
      [] esi = 2 -> 8
      [] esi = 3 -> 4
      [] esi = 4 -> 2
      [] esi = 5 -> 0
      [] OTHER   -> 4

OXYGEN_RESERVE_CRITICAL_HOURS == 4
OXYGEN_RESERVE_WARNING_HOURS == 8
FUEL_CRITICAL_LEVEL == 15
NURSE_PATIENT_RATIO_ICU == 2

(***************************************************************************)
(* agents/hospital_agent.py                                                *)
(***************************************************************************)
\* HospitalAgent.__init__: the ledger built from one HOSPITALS_CONFIG entry
HospitalAgent(cfg) ==
    [ location            |-> cfg.location,
      total_beds          |-> cfg.total_beds,
      available_beds      |-> cfg.available_beds,
      icu_beds            |-> cfg.icu_beds,
      icu_available       |-> cfg.icu_available,
      oxygen_units        |-> cfg.oxygen_units,
      doctors_on_duty     |-> cfg.doctors_on_duty,
      nurses_on_duty      |-> cfg.doctors_on_duty * 3,
      patient_inflow_rate |-> cfg.patient_inflow_rate,
      patients_admitted   |-> <<>> ]

icu_patients(h) == h.icu_beds - h.icu_available

current_oxygen_consumption_lpm(h) ==
    SumSeq([i \in 1..Len(h.patients_admitted) |->
               OXYGEN_CONSUMPTION_LPM(h.patients_admitted[i].esi_level)])
    + icu_patients(h) * OXYGEN_CONSUMPTION_LPM(1)

\* oxygen_hours_remaining <= hours, with oxygen_hours_remaining =
\* oxygen_units / (lpm * 60), or 999 when nothing is consumed
OxygenHoursLE(h, hours) ==
    LET lpm == current_oxygen_consumption_lpm(h)
    IN  IF lpm <= 0 THEN 999 <= hours
        ELSE h.oxygen_units <= hours * lpm * 60

oxygen_status(h) ==
    IF OxygenHoursLE(h, OXYGEN_RESERVE_CRITICAL_HOURS) THEN "critical"
    ELSE IF OxygenHoursLE(h, OXYGEN_RESERVE_WARNING_HOURS) THEN "warning"
    ELSE "adequate"

\* bed_utilization = 1 - available_beds / max(total_beds, 1), as a rational
BedUtilNum(h) == Max(h.total_beds, 1) - h.available_beds
BedUtilDen(h) == Max(h.total_beds, 1)
IcuUtilNum(h) == Max(h.icu_beds, 1) - h.icu_available
IcuUtilDen(h) == Max(h.icu_beds, 1)

\* bed_utilization >= pct / 100
BedUtilGE(h, pct) == 100 * BedUtilNum(h) >= pct * BedUtilDen(h)
IcuUtilGE(h, pct) == 100 * IcuUtilNum(h) >= pct * IcuUtilDen(h)

is_overloaded(h) == BedUtilGE(h, 85)

is_critical(h) ==
    \/ BedUtilGE(h, 95)
    \/ IcuUtilGE(h, 90)
    \/ oxygen_status(h) = "critical"

requires_diversion(h) ==
    \/ BedUtilGE(h, 98)
    \/ h.icu_available = 0
    \/ OxygenHoursLE(h, 2)

\* nurse_patient_ratio >= 1 / NURSE_PATIENT_RATIO_ICU, the ratio being
\* infinite without ICU patients and nurses * 0.4 / icu_patients otherwise
staffing_adequate(h) ==
    \/ icu_patients(h) = 0
    \/ 4 * h.nurses_on_duty * NURSE_PATIENT_RATIO_ICU >= 10 * icu_patients(h)

can_accept_patient(h, esi_level) ==
    IF esi_level <= 2
    THEN /\ h.icu_available > 0
         /\ ~OxygenHoursLE(h, OXYGEN_RESERVE_CRITICAL_HOURS)
         /\ ~requires_diversion(h)
    ELSE /\ h.available_beds > 0
         /\ ~requires_diversion(h)

\* accept_patient without its can_accept_patient guard
accept_patient_unguarded(h, patient_id, esi_level) ==
    IF esi_level <= 2
    THEN [h EXCEPT !.icu_available = @ - 1,
                   !.patients_admitted = Append(@,
                       [id |-> patient_id, esi_level |-> esi_level, unit |-> "ICU"])]
    ELSE [h EXCEPT !.available_beds = @ - 1,
                   !.patients_admitted = Append(@,
                       [id |-> patient_id, esi_level |-> esi_level, unit |-> "General"])]

\* accept_patient: the ledger after the call (unchanged when it returns False)
accept_patient(h, patient_id, esi_level) ==
    IF ~can_accept_patient(h, esi_level) THEN h
    ELSE IF esi_level <= 2
    THEN [h EXCEPT !.icu_available = @ - 1,
                   !.patients_admitted = Append(@,
                       [id |-> patient_id, esi_level |-> esi_level, unit |-> "ICU"])]
    ELSE [h EXCEPT !.available_beds = @ - 1,
                   !.patients_admitted = Append(@,
                       [id |-> patient_id, esi_level |-> esi_level, unit |-> "General"])]

\* list.sort(key=lambda p: -p["esi_level"]): stable, largest ESI level first
SortByNegEsi(ps) ==
    Concat([k \in 1..5 |-> SelectSeq(ps, LAMBDA p : p.esi_level = 6 - k)])

\* update that discharges without giving the slot back
HospitalUpdate_nofree(h, t) ==
    LET consumed == current_oxygen_consumption_lpm(h) * 5
        h1 == [h EXCEPT !.oxygen_units = Max(0, @ - consumed)]
    IN  IF t % 5 = 0 /\ h1.patients_admitted # <<>>
        THEN LET sorted == SortByNegEsi(h1.patients_admitted)
             IN  [h1 EXCEPT !.patients_admitted = SubSeq(sorted, 1, Len(sorted) - 1)]
        ELSE h1

\* HospitalAgent.update(tick)
HospitalUpdate(h, t) ==
    LET consumed == current_oxygen_consumption_lpm(h) * 5
        h1 == [h EXCEPT !.oxygen_units = Max(0, @ - consumed)]
    IN  IF t % 5 = 0 /\ h1.patients_admitted # <<>>
        THEN LET sorted == SortByNegEsi(h1.patients_admitted)
                 discharged == sorted[Len(sorted)]
                 rest == SubSeq(sorted, 1, Len(sorted) - 1)
             IN  IF discharged.unit = "ICU"
                 THEN [h1 EXCEPT !.patients_admitted = rest,
                                 !.icu_available = Min(@ + 1, h1.icu_beds)]
                 ELSE [h1 EXCEPT !.patients_admitted = rest,
                                 !.available_beds = Min(@ + 1, h1.total_beds)]
        ELSE h1

(***************************************************************************)
(* Configurations and idle values                                          *)
(***************************************************************************)
EmptyMap == [x \in {} |-> None]

\* a dict holds values: the function with every value computed once
Dict(f) == f @@ EmptyMap

OxygenOptions == {0, 3000, 20000}

HospitalLocation(id) == IF id = "hospital_a" THEN 20 ELSE 60

\* consistent capacity triples only: 0 < total, 0 <= available <= total
HospitalConfigs(id) ==
    { [ location |-> HospitalLocation(id),
        total_beds |-> tb, available_beds |-> ab,
        icu_beds |-> ib, icu_available |-> ia,
        oxygen_units |-> ox, doctors_on_duty |-> 2, patient_inflow_rate |-> 2 ] :
      tb \in {MaxBeds}, ab \in 0..MaxBeds, ib \in {MaxIcu}, ia \in 0..MaxIcu,
      ox \in OxygenOptions }

ValidHospitalConfig(cfg) ==
    /\ cfg.total_beds > 0 /\ cfg.icu_beds > 0
    /\ cfg.available_beds \in 0..cfg.total_beds
    /\ cfg.icu_available \in 0..cfg.icu_beds
    /\ cfg.oxygen_units >= 0

NoRound == [round |-> 0, waiting |-> <<>>,
            hospital_messages |-> EmptyMap, ambulance_messages |-> EmptyMap,
            inventory |-> EmptyMap, available |-> EmptyMap,
            hospital_capacity |-> EmptyMap, patient_assignments |-> <<>>,
            supply_allocations |-> <<>>, ambulance_assignments |-> <<>>]
NoMonitor == [detected |-> <<>>, responses |-> <<>>, ever |-> {}]
NoStep == [outcome |-> "none", tick |-> 0, actions |-> <<>>, alerts |-> <<>>]
NoValidation == [proposed |-> <<>>, hospitals |-> EmptyMap, called |-> FALSE,
                 valid |-> <<>>, rejected |-> <<>>,
                 repeated |-> FALSE, valid_again |-> <<>>, rejected_again |-> <<>>]

\* Simulator.__init__
Constructed ==
    /\ running = FALSE
    /\ tick = 0
    /\ hospitals = EmptyMap
    /\ ambulances = EmptyMap
    /\ supply = None
    /\ government = None
    /\ waiting_patients = <<>>
    /\ gen_tick = 0
    /\ current_round = 0
    /\ round_result = NoRound
    /\ active_failures = <<>>
    /\ monitor = NoMonitor
    /\ step_result = NoStep
    /\ validation = NoValidation

(***************************************************************************)
(* HospitalSpec: one hospital ledger driven through its own operations     *)
(***************************************************************************)
HospitalInit ==
    /\ \E cfg \in {c \in HospitalConfigs("hospital_a") : ValidHospitalConfig(c)} :
          /\ scenario = [hospitals |-> [h \in {"hospital_a"} |-> cfg]]
          /\ hospitals = [h \in {"hospital_a"} |-> HospitalAgent(cfg)]
    /\ running = FALSE
    /\ tick = 0
    /\ ambulances = EmptyMap
    /\ supply = None
    /\ government = None
    /\ waiting_patients = <<>>
    /\ gen_tick = 0
    /\ current_round = 0
    /\ round_result = NoRound
    /\ active_failures = <<>>
    /\ monitor = NoMonitor
    /\ step_result = NoStep
    /\ validation = NoValidation

\* a caller hands one patient to a hospital: HospitalAgent.accept_patient
AcceptPatient(h, patient_id, esi_level) ==
    /\ hospitals' = [hospitals EXCEPT ![h] = accept_patient(@, patient_id, esi_level)]
    /\ UNCHANGED <<scenario, running, tick, ambulances, supply, government,
                   waiting_patients, gen_tick, current_round, round_result,
                   active_failures, monitor, step_result, validation>>

\* the time-step phase for the hospitals: hospital.update(self.tick)
UpdateHospitals ==
    /\ tick < MaxTick
    /\ tick' = tick + 1
    /\ hospitals' = [h \in DOMAIN hospitals |-> HospitalUpdate(hospitals[h], tick + 1)]
    /\ UNCHANGED <<scenario, running, ambulances, supply, government,
                   waiting_patients, gen_tick, current_round, round_result,
                   active_failures, monitor, step_result, validation>>

HospitalNext ==
    \/ \E h \in DOMAIN hospitals, esi \in {1, 2, 4} :
          AcceptPatient(h, <<0, 0>>, esi)
    \/ UpdateHospitals

HospitalSpec == HospitalInit /\ [][HospitalNext]_vars

CountUnit(h, unit) ==
    Len(SelectSeq(h.patients_admitted, LAMBDA p : p.unit = unit))

\* C1: every hospital keeps 0 <= available_beds <= total_beds,
\* 0 <= icu_available <= icu_beds and oxygen_units >= 0, whatever admissions,
\* discharges and oxygen consumption happened
C1_CapacityBounds ==
    \A h \in DOMAIN hospitals :
        /\ hospitals[h].available_beds >= 0
        /\ hospitals[h].available_beds <= hospitals[h].total_beds
        /\ hospitals[h].icu_available >= 0
        /\ hospitals[h].icu_available <= hospitals[h].icu_beds
        /\ hospitals[h].oxygen_units >= 0

\* a hospital that admitted until a counter reached 0 and has been updated since
C1_Witness ==
    \E h \in DOMAIN hospitals :
        /\ tick > 0
        /\ hospitals[h].patients_admitted # <<>>
        /\ hospitals[h].available_beds = 0
        /\ scenario.hospitals[h].available_beds > 0

\* C2 (as stated): free counter plus the patients held in the unit equals the
\* unit's total, for both units of every hospital
C2_ConservationAsStated ==
    \A h \in DOMAIN hospitals :
        /\ hospitals[h].available_beds + CountUnit(hospitals[h], "General")
             = hospitals[h].total_beds
        /\ hospitals[h].icu_available + CountUnit(hospitals[h], "ICU")
             = hospitals[h].icu_beds

\* free counter plus tracked patients of the unit equals the configured free count
BaselineConserved ==
    \A h \in DOMAIN hospitals :
        /\ hospitals[h].available_beds + CountUnit(hospitals[h], "General")
             = scenario.hospitals[h].available_beds
        /\ hospitals[h].icu_available + CountUnit(hospitals[h], "ICU")
             = scenario.hospitals[h].icu_available

\* one admission or one discharge moves exactly the matching counter by one
DeltaOne ==
    \A h \in (DOMAIN hospitals) \cap (DOMAIN hospitals') :
        LET a == hospitals[h]
            b == hospitals'[h]
            dGen == CountUnit(b, "General") - CountUnit(a, "General")
            dIcu == CountUnit(b, "ICU") - CountUnit(a, "ICU")
        IN  /\ dGen \in {-1, 0, 1} /\ dIcu \in {-1, 0, 1}
            /\ b.available_beds = a.available_beds - dGen
            /\ b.icu_available = a.icu_available - dIcu

\* C2 (amended): for a hospital built from a consistent configuration, the free
\* counter of a unit plus the number of patients_admitted entries of that unit
\* always equals the configured initial free count (beds occupied before the
\* run are not tracked as patients), and every admission lowers, every
\* discharge raises, the matching counter by exactly one
C2_Conservation == []BaselineConserved /\ [][DeltaOne]_vars

\* a hospital whose only tracked patient has been discharged again: more oxygen
\* is gone than the untracked ICU occupants alone consume
C2_Witness ==
    \E h \in DOMAIN hospitals :
        /\ hospitals[h].patients_admitted = <<>>
        /\ hospitals[h].oxygen_units > 0
        /\ hospitals[h].oxygen_units <
             scenario.hospitals[h].oxygen_units
               - tick * 5 * icu_patients(hospitals[h]) * OXYGEN_CONSUMPTION_LPM(1)

(***************************************************************************)
(* agents/ambulance_agent.py                                               *)
(***************************************************************************)
AmbulanceAgent(cfg) ==
    [ location           |-> cfg.location,
      capacity           |-> cfg.capacity,
      current_patients   |-> <<>>,
      fuel               |-> cfg.fuel,
      available          |-> cfg.available,
      status             |-> "idle",
      target_patient     |-> NoPatient,
      target_hospital    |-> None,
      destination        |-> NoLocation,
      patients_delivered |-> 0 ]

\* a unit that counts as available whenever it is in service
is_available_flag(a) == a.available

\* a unit that counts as available whatever is left in its tank
is_available_unfuelled(a) ==
    /\ a.available
    /\ a.status = "idle"
    /\ Len(a.current_patients) < a.capacity

\* AmbulanceAgent.is_available
is_available(a) ==
    /\ a.available
    /\ a.status = "idle"
    /\ Len(a.current_patients) < a.capacity
    /\ a.fuel > FUEL_CRITICAL_LEVEL

Distance(from_loc, to_loc) ==
    IF to_loc >= from_loc THEN to_loc - from_loc ELSE from_loc - to_loc

\* a unit that stands still once its tank is empty
move_toward_fuelled(a, target) ==
    IF a.fuel > 0 /\ Distance(a.location, target) < 5
    THEN [location |-> target, arrived |-> TRUE]
    ELSE [location |-> IF a.fuel = 0 THEN a.location
                       ELSE IF target > a.location THEN a.location + 5
                       ELSE a.location - 5,
          arrived |-> FALSE]

\* _move_toward with speed_factor 5: the new location and whether it arrived
move_toward(a, target) ==
    IF Distance(a.location, target) < 5
    THEN [location |-> target, arrived |-> TRUE]
    ELSE [location |-> IF target > a.location THEN a.location + 5 ELSE a.location - 5,
          arrived |-> FALSE]

\* AmbulanceAgent.assign_mission
assign_mission(a, patient, hospital_id) ==
    [a EXCEPT !.target_patient = patient,
              !.target_hospital = hospital_id,
              !.status = "en_route_pickup",
              !.destination = patient.location]

\* AmbulanceAgent.update(tick): the agent after the tick and the actions returned
AmbulanceUpdate(a) ==
    LET moved ==
          IF a.status = "en_route_pickup" /\ a.destination # NoLocation
          THEN LET m == move_toward(a, a.destination)
               IN  IF m.arrived /\ a.target_patient # NoPatient
                   THEN [agent |-> [a EXCEPT !.location = m.location,
                                             !.current_patients = Append(@, a.target_patient),
                                             !.status = "en_route_hospital"],
                         actions |-> <<[type |-> "patient_picked_up",
                                        patient |-> a.target_patient.id,
                                        hospital |-> None]>>]
                   ELSE [agent |-> [a EXCEPT !.location = m.location], actions |-> <<>>]
          ELSE IF a.status = "en_route_hospital" /\ a.destination # NoLocation
          THEN LET m == move_toward(a, a.destination)
               IN  IF m.arrived
                   THEN [agent |-> [a EXCEPT !.location = m.location,
                                             !.patients_delivered = @ + Len(a.current_patients),
                                             !.current_patients = <<>>,
                                             !.target_patient = NoPatient,
                                             !.target_hospital = None,
                                             !.status = "idle",
                                             !.destination = NoLocation],
                         actions |-> [i \in 1..Len(a.current_patients) |->
                                        [type |-> "patient_delivered",
                                         patient |-> a.current_patients[i].id,
                                         hospital |-> a.target_hospital]]]
                   ELSE [agent |-> [a EXCEPT !.location = m.location], actions |-> <<>>]
          ELSE [agent |-> a, actions |-> <<>>]
        b == moved.agent
    IN  [agent |-> IF b.status # "idle" THEN [b EXCEPT !.fuel = Max(0, @ - 2)] ELSE b,
         actions |-> moved.actions]

\* the part of AmbulanceAgent.generate_message the engine reads; the message
\* carries no "location" key
AmbulanceMessage(id, a) ==
    [ agent_id        |-> id,
      available_slots |-> a.capacity - Len(a.current_patients),
      fuel_level      |-> a.fuel,
      offers          |-> IF is_available(a) THEN <<"patient_transport">> ELSE <<>> ]

\* AmbulanceAgent.get_state, the keys the failure monitor reads
AmbulanceState(a) == [available |-> is_available(a), fuel |-> a.fuel]

(***************************************************************************)
(* agents/supply_agent.py (delivery times are kept in half minutes)        *)
(***************************************************************************)
SupplyAgent(cfg) ==
    [ location            |-> cfg.location,
      inventory           |-> [food |-> cfg.food_units, water |-> cfg.water_units,
                               oxygen |-> cfg.oxygen_units,
                               medicine |-> cfg.medicine_units],
      delivery_vehicles   |-> cfg.delivery_vehicles,
      vehicles_available  |-> cfg.delivery_vehicles,
      active_deliveries   |-> <<>>,
      completed_deliveries |-> <<>>,
      pending_requests    |-> <<>> ]

\* dict.get(key, 0)
InventoryGet(inventory, key) ==
    IF key \in DOMAIN inventory THEN inventory[key] ELSE 0

\* list.remove(x): drops the first element equal to x
RECURSIVE RemoveFirst(_, _)
RemoveFirst(s, x) ==
    IF s = <<>> THEN <<>>
    ELSE IF Head(s) = x THEN Tail(s)
    ELSE <<Head(s)>> \o RemoveFirst(Tail(s), x)

RECURSIVE RemoveAll(_, _)
RemoveAll(s, xs) ==
    IF xs = <<>> THEN s ELSE RemoveAll(RemoveFirst(s, Head(xs)), Tail(xs))

\* an allocation that does not look at the stock or at the vehicles
allocate_supply_unguarded(sup, supply_type, quantity, destination_id, destination_location) ==
    [sup EXCEPT !.inventory[supply_type] = @ - quantity,
                !.vehicles_available = @ - 1,
                !.active_deliveries = Append(@,
                    [ id |-> Len(sup.active_deliveries),
                      supply_type |-> supply_type,
                      quantity |-> quantity,
                      destination_id |-> destination_id,
                      eta_minutes |-> 3 * Distance(sup.location, destination_location),
                      status |-> "in_transit" ])]

\* SupplyAgent.allocate_supply: the depot after the call (unchanged where the
\* call returns None)
allocate_supply(sup, supply_type, quantity, destination_id, destination_location) ==
    IF InventoryGet(sup.inventory, supply_type) < quantity \/ sup.vehicles_available <= 0
    THEN sup
    ELSE [sup EXCEPT !.inventory[supply_type] = @ - quantity,
                     !.vehicles_available = @ - 1,
                     !.active_deliveries = Append(@,
                         [ id |-> Len(sup.active_deliveries),
                           supply_type |-> supply_type,
                           quantity |-> quantity,
                           destination_id |-> destination_id,
                           eta_minutes |-> 3 * Distance(sup.location, destination_location),
                           status |-> "in_transit" ])]

\* the loop of SupplyAgent.process_pending_requests over the requests left
RECURSIVE process_loop(_, _, _)
process_loop(sup, requests, processed) ==
    IF requests = <<>> \/ sup.vehicles_available <= 0
    THEN [supply |-> sup, processed |-> processed]
    ELSE LET request == Head(requests)
             quantity == Min(request.quantity,
                             InventoryGet(sup.inventory, request.supply_type))
         IN  IF quantity > 0
             THEN process_loop(allocate_supply(sup, request.supply_type, quantity,
                                               request.requester_id,
                                               request.requester_location),
                               Tail(requests), Append(processed, request))
             ELSE process_loop(sup, Tail(requests), processed)

process_pending_requests(sup) ==
    LET done == process_loop(sup, sup.pending_requests, <<>>)
    IN  [done.supply EXCEPT !.pending_requests = RemoveAll(@, done.processed)]

\* an update that keeps the vehicle of a completed delivery out of the pool
SupplyUpdate_keeping(sup) ==
    LET aged == [i \in 1..Len(sup.active_deliveries) |->
                   [sup.active_deliveries[i] EXCEPT
                       !.eta_minutes = Max(0, @ - 10),
                       !.status = IF sup.active_deliveries[i].eta_minutes - 10 <= 0
                                  THEN "completed" ELSE @]]
        completed == SelectSeq(aged, LAMBDA d : d.status = "completed")
    IN  [sup EXCEPT !.active_deliveries = SelectSeq(aged, LAMBDA d : d.status # "completed"),
                    !.completed_deliveries = @ \o completed]

\* SupplyAgent.update(tick)
SupplyUpdate(sup) ==
    LET aged == [i \in 1..Len(sup.active_deliveries) |->
                   [sup.active_deliveries[i] EXCEPT
                       !.eta_minutes = Max(0, @ - 10),
                       !.status = IF sup.active_deliveries[i].eta_minutes - 10 <= 0
                                  THEN "completed" ELSE @]]
        completed == SelectSeq(aged, LAMBDA d : d.status = "completed")
    IN  [sup EXCEPT !.active_deliveries = SelectSeq(aged, LAMBDA d : d.status # "completed"),
                    !.completed_deliveries = @ \o completed,
                    !.vehicles_available = @ + Len(completed)]

\* SupplyAgent.get_state, the key the failure monitor reads
SupplyState(sup) == [inventory |-> sup.inventory]

\* a status message whose "inventory" is the depot's own dict, as get_state
\* hands it out
SupplyMessage_shared(sup) == [inventory |-> sup.inventory, inventory_is_copy |-> FALSE]

\* SupplyAgent.generate_message: "inventory" is self.inventory.copy()
SupplyMessage(sup) == [inventory |-> sup.inventory, inventory_is_copy |-> TRUE]

\* the depot after _allocate_supplies wrote its counts into the "inventory"
\* dict of the message it was handed
supply_after_round(sup, supply_message, available) ==
    IF supply_message.inventory_is_copy THEN sup
    ELSE [sup EXCEPT !.inventory = available]

(***************************************************************************)
(* agents/government_agent.py (disaster_severity in percent)               *)
(***************************************************************************)
GovernmentAgent(cfg) == [disaster_severity |-> cfg.disaster_severity]

\* multipliers in percent: 1.5 for a critical hospital, 1.3 for oxygen below 30
calculate_priority_multipliers(hs) ==
    Dict([h \in DOMAIN hs |->
            LET base == IF is_critical(hs[h]) THEN 150 ELSE 100
            IN  IF hs[h].oxygen_units < 30 THEN (base * 13) \div 10 ELSE base])

GovernmentUpdate(g, t) ==
    IF t % 10 = 0 /\ g.disaster_severity > 30
    THEN [g EXCEPT !.disaster_severity = Max(30, @ - 2)]
    ELSE g

(***************************************************************************)
(* Hospital messages (hospital_agent.py:203-261, 400-423)                  *)
(***************************************************************************)
\* calculate_priority_score as the rational PriorityNum / (100 * PriorityDen)
PriorityDen(h) == BedUtilDen(h) * IcuUtilDen(h)

PriorityNum(h) ==
    LET oxygen == IF oxygen_status(h) = "critical" THEN 30
                  ELSE IF oxygen_status(h) = "warning" THEN 15 ELSE 0
        staffing == IF staffing_adequate(h) THEN 0 ELSE 10
        inflow == Min(5, h.patient_inflow_rate)
    IN  Min(100 * PriorityDen(h),
            25 * BedUtilNum(h) * IcuUtilDen(h)
              + 30 * IcuUtilNum(h) * BedUtilDen(h)
              + (oxygen + staffing + inflow) * PriorityDen(h))

\* HospitalAgent._generate_requests
generate_requests(h) ==
    (IF oxygen_status(h) # "adequate"
     THEN <<[resource |-> "oxygen", quantity |-> 100,
             urgency |-> IF OxygenHoursLE(h, OXYGEN_RESERVE_CRITICAL_HOURS)
                         THEN "critical" ELSE "high"]>>
     ELSE <<>>)
    \o (IF requires_diversion(h)
        THEN <<[resource |-> "patient_diversion", quantity |-> 1, urgency |-> "critical"]>>
        ELSE IF is_overloaded(h)
        THEN <<[resource |-> "surge_support", quantity |-> 1, urgency |-> "high"]>>
        ELSE <<>>)
    \o (IF ~staffing_adequate(h) /\ icu_patients(h) > 0
        THEN <<[resource |-> "nursing_staff", quantity |-> 2, urgency |-> "high"]>>
        ELSE <<>>)

\* HospitalAgent.generate_message plus the location the orchestrator adds
HospitalMessage(id, h) ==
    [ agent_id       |-> id,
      available_beds |-> h.available_beds,
      icu_available  |-> h.icu_available,
      location       |-> h.location,
      requests       |-> generate_requests(h),
      priority_num   |-> PriorityNum(h),
      priority_den   |-> PriorityDen(h) ]

\* HospitalAgent.get_state, the keys the failure monitor reads
HospitalState(h) ==
    [ available_beds |-> h.available_beds,
      icu_available  |-> h.icu_available,
      oxygen_units   |-> h.oxygen_units ]

(***************************************************************************)
(* negotiation/negotiation_engine.py                                       *)
(***************************************************************************)
DefaultLocation == 50

\* the number of patients one round processes (sorted_patients[:10])
BatchCap == 10

urgency_order(u) ==
    CASE u = "critical" -> 0
      [] u = "high"     -> 1
      [] u = "medium"   -> 2
      [] u = "low"      -> 3
      [] OTHER          -> 2

severity_order(sev) ==
    CASE sev = "critical" -> 0
      [] sev = "high"     -> 1
      [] sev = "medium"   -> 2
      [] sev = "low"      -> 3
      [] OTHER            -> 2

\* sorted(patients, key=severity_order): stable
SortBySeverity(patients) ==
    Concat([k \in 1..4 |->
              SelectSeq(patients, LAMBDA p : severity_order(p.severity) = k - 1)])

\* the hospital_capacity map built from the messages
HospitalCapacity(messages) ==
    Dict([h \in DOMAIN messages |->
            [ beds         |-> messages[h].available_beds,
              icu          |-> messages[h].icu_available,
              location     |-> messages[h].location,
              priority_num |-> messages[h].priority_num,
              priority_den |-> messages[h].priority_den ]])

\* total_score * 500 * priority_den, the multiplier being in percent
ScoreNum(patient, h_data, priority_mult) ==
    LET distance == Distance(patient.location, h_data.location)
        distance_score == Max(0, 100 - distance)
        capacity_score == Min(50, h_data.beds + h_data.icu * 2)
    IN  priority_mult
          * ((2 * distance_score + 4 * capacity_score + 100) * h_data.priority_den
               - h_data.priority_num)

\* the keys of a dict in insertion order
KeysInOrder(order, map) == SelectSeq(order, LAMBDA k : k \in DOMAIN map)

\* _find_best_hospital on a hospital_capacity dict whose insertion order is
\* `order`: the id of the first candidate of maximal score, or None
find_best_hospital_of(order, patient, hospital_capacity, multipliers) ==
    LET has_capacity(h) ==
            IF patient.severity = "critical"
            THEN hospital_capacity[h].icu > 0
            ELSE hospital_capacity[h].beds > 0
        candidates == SelectSeq(KeysInOrder(order, hospital_capacity), has_capacity)
        Gt(a, b) ==
            ScoreNum(patient, hospital_capacity[a], multipliers[a])
                * hospital_capacity[b].priority_den
              > ScoreNum(patient, hospital_capacity[b], multipliers[b])
                * hospital_capacity[a].priority_den
    IN  IF candidates = <<>> THEN None
        ELSE candidates[CHOOSE i \in 1..Len(candidates) :
                          /\ \A j \in 1..Len(candidates) : ~Gt(candidates[j], candidates[i])
                          /\ \A j \in 1..(i - 1) : Gt(candidates[i], candidates[j])]

\* _find_best_hospital on the map built from Simulator.hospitals
find_best_hospital(patient, hospital_capacity, multipliers) ==
    find_best_hospital_of(HospitalOrder, patient, hospital_capacity, multipliers)

\* the body of the loop of _assign_patients_to_hospitals for one patient:
\* the proposal and the decrement of the tentative counter
assign_one(patient, best_hospital, matched) ==
    IF best_hospital = None THEN matched
    ELSE [ assignments |->
               Append(matched.assignments,
                      [ patient_id |-> patient.id,
                        patient_severity |-> patient.severity,
                        patient_location |-> patient.location,
                        assigned_hospital |-> best_hospital ]),
           hospital_capacity |->
               IF patient.severity = "critical"
               THEN [matched.hospital_capacity EXCEPT ![best_hospital].icu = @ - 1]
               ELSE [matched.hospital_capacity EXCEPT ![best_hospital].beds = @ - 1] ]

\* the loop of _assign_patients_to_hospitals over the batch that is left
RECURSIVE assign_loop_of(_, _, _, _)
assign_loop_of(order, batch, multipliers, matched) ==
    IF batch = <<>> THEN matched
    ELSE assign_loop_of(order, Tail(batch), multipliers,
                        assign_one(Head(batch),
                                   find_best_hospital_of(order, Head(batch),
                                                         matched.hospital_capacity,
                                                         multipliers),
                                   matched))

assign_loop(batch, multipliers, matched) ==
    assign_loop_of(HospitalOrder, batch, multipliers, matched)

\* sorted_patients without the [:10] slice
Batch_unsliced(sorted_patients) == sorted_patients

\* sorted_patients[:10]
Batch(sorted_patients) ==
    SubSeq(sorted_patients, 1, Min(Len(sorted_patients), BatchCap))

\* _assign_patients_to_hospitals: the proposals and the tentative capacity
\* map as the loop leaves it
assign_patients_of(order, patients, messages, multipliers) ==
    assign_loop_of(order, Batch(SortBySeverity(patients)), multipliers,
                   [assignments |-> <<>>, hospital_capacity |-> HospitalCapacity(messages)])

\* _assign_patients_to_hospitals on the messages of Simulator.hospitals
assign_patients_to_hospitals(patients, messages, multipliers) ==
    assign_patients_of(HospitalOrder, patients, messages, multipliers)

\* key of all_requests.sort: (urgency_order, -hospital_priority)
RequestLess(r, q) ==
    \/ urgency_order(r.urgency) < urgency_order(q.urgency)
    \/ /\ urgency_order(r.urgency) = urgency_order(q.urgency)
       /\ r.priority_num * q.priority_den > q.priority_num * r.priority_den

\* stable insertion of one request behind every request that is not after it
RECURSIVE InsertRequest(_, _)
InsertRequest(sorted, r) ==
    IF sorted = <<>> THEN <<r>>
    ELSE IF RequestLess(r, Head(sorted)) THEN <<r>> \o sorted
    ELSE <<Head(sorted)>> \o InsertRequest(Tail(sorted), r)

\* all_requests.sort(key=...): stable
RECURSIVE SortRequests(_, _)
SortRequests(requests, sorted) ==
    IF requests = <<>> THEN sorted
    ELSE SortRequests(Tail(requests), InsertRequest(sorted, Head(requests)))

\* a grant that is not clamped to what is left
grant_unclamped(quantity, available_qty) == quantity

\* allocated = min(quantity, available_qty)
grant(quantity, available_qty) == Min(quantity, available_qty)

\* the loop of _allocate_supplies over the requests that are left: the
\* allocations and the local dict `available` as the loop leaves them
RECURSIVE allocate_loop(_, _, _)
allocate_loop(requests, available, allocations) ==
    IF requests = <<>> THEN [allocations |-> allocations, available |-> available]
    ELSE LET req == Head(requests)
             available_qty == InventoryGet(available, req.resource)
             allocated == grant(req.quantity, available_qty)
         IN  IF req.resource = "ambulance_diversion" \/ available_qty <= 0
             THEN allocate_loop(Tail(requests), available, allocations)
             ELSE allocate_loop(
                    Tail(requests),
                    [available EXCEPT ![req.resource] = available_qty - allocated],
                    Append(allocations,
                           [ hospital_id |-> req.hospital_id,
                             resource |-> req.resource,
                             quantity |-> allocated,
                             urgency |-> req.urgency ]))

\* all_requests[:5]
FirstFive(requests) == SubSeq(requests, 1, Min(Len(requests), 5))

\* the list all_requests of _allocate_supplies, before it is sorted
all_requests_of(order, messages) ==
    LET ids == KeysInOrder(order, messages)
    IN  Concat([i \in 1..Len(ids) |->
                  [k \in 1..Len(messages[ids[i]].requests) |->
                      [ resource |-> messages[ids[i]].requests[k].resource,
                        quantity |-> messages[ids[i]].requests[k].quantity,
                        urgency |-> messages[ids[i]].requests[k].urgency,
                        hospital_id |-> ids[i],
                        priority_num |-> messages[ids[i]].priority_num,
                        priority_den |-> messages[ids[i]].priority_den ]]])

\* the body of _allocate_supplies: its result and its local dict `available`
supply_round_of(order, messages, inventory) ==
    allocate_loop(FirstFive(SortRequests(all_requests_of(order, messages), <<>>)),
                  inventory, <<>>)

\* the body of _allocate_supplies on the messages of Simulator.hospitals
supply_round(messages, inventory) == supply_round_of(HospitalOrder, messages, inventory)

\* _allocate_supplies
allocate_supplies(messages, inventory) == supply_round(messages, inventory).allocations

\* a scan that may stop at any unit of minimal ETA
BestAmbulances_anyminimal(etas) ==
    {i \in 1..Len(etas) : \A j \in 1..Len(etas) : etas[j] >= etas[i]}

\* the units the scan `if eta < best_eta` can end on: the first of minimal ETA
BestAmbulances(etas) ==
    {i \in 1..Len(etas) :
        /\ \A j \in 1..Len(etas) : etas[j] >= etas[i]
        /\ \A j \in 1..(i - 1) : etas[j] > etas[i]}

\* the assignment lists the loop of _assign_ambulances can produce; every
\* ambulance message lacks "location", so amb.get("location", (50, 50)) is
\* the default for each of them
RECURSIVE ambulance_outcomes(_, _, _, _)
ambulance_outcomes(patient_assignments, available_ambulances, locations, assignments) ==
    IF patient_assignments = <<>> \/ available_ambulances = <<>> THEN {assignments}
    ELSE LET assignment == Head(patient_assignments)
             patient_loc == assignment.patient_location
             hospital_loc == locations[assignment.assigned_hospital]
             eta(amb) == 3 * (Distance(DefaultLocation, patient_loc)
                                + Distance(patient_loc, hospital_loc))
             etas == [i \in 1..Len(available_ambulances) |-> eta(available_ambulances[i])]
         IN  UNION { ambulance_outcomes(
                       Tail(patient_assignments),
                       RemoveFirst(available_ambulances, available_ambulances[best]),
                       locations,
                       Append(assignments,
                              [ ambulance_id |-> available_ambulances[best],
                                patient_id |-> assignment.patient_id,
                                hospital_id |-> assignment.assigned_hospital,
                                eta_minutes |-> etas[best] ])) :
                     best \in BestAmbulances(etas) }

\* the loop of _assign_ambulances
ambulance_loop(patient_assignments, available_ambulances, locations, assignments) ==
    CHOOSE outcome \in ambulance_outcomes(patient_assignments, available_ambulances,
                                          locations, assignments) : TRUE

\* the assignment lists _assign_ambulances can return
assign_ambulances_outcomes(patient_assignments, ambulance_messages, hospital_messages) ==
    ambulance_outcomes(
        patient_assignments,
        SelectSeq(KeysInOrder(AmbulanceOrder, ambulance_messages),
                  LAMBDA a : ambulance_messages[a].available_slots > 0),
        Dict([h \in DOMAIN hospital_messages |-> hospital_messages[h].location]),
        <<>>)

\* _assign_ambulances
assign_ambulances(patient_assignments, ambulance_messages, hospital_messages) ==
    ambulance_loop(
        patient_assignments,
        SelectSeq(KeysInOrder(AmbulanceOrder, ambulance_messages),
                  LAMBDA a : ambulance_messages[a].available_slots > 0),
        Dict([h \in DOMAIN hospital_messages |-> hospital_messages[h].location]),
        <<>>)

\* the round_result dict of run_negotiation, with the inputs of the round
round_record(round, waiting, hospital_messages, ambulance_messages, inventory, matched, supplied) ==
    [ round                 |-> round,
      waiting               |-> waiting,
      hospital_messages     |-> hospital_messages,
      ambulance_messages    |-> ambulance_messages,
      inventory             |-> inventory,
      available             |-> supplied.available,
      hospital_capacity     |-> matched.hospital_capacity,
      patient_assignments   |-> matched.assignments,
      supply_allocations    |-> supplied.allocations,
      ambulance_assignments |-> assign_ambulances(matched.assignments,
                                                  ambulance_messages,
                                                  hospital_messages) ]

\* NegotiationEngine.run_negotiation
run_negotiation(round, hospital_messages, ambulance_messages, inventory, multipliers, waiting) ==
    round_record(round, waiting, hospital_messages, ambulance_messages, inventory,
                 assign_patients_to_hospitals(waiting, hospital_messages, multipliers),
                 supply_round(hospital_messages, inventory))

\* run_negotiation on a list of hospital messages in the order `order`
run_negotiation_of(order, round, hospital_messages, ambulance_messages, inventory, multipliers, waiting) ==
    round_record(round, waiting, hospital_messages, ambulance_messages, inventory,
                 assign_patients_of(order, waiting, hospital_messages, multipliers),
                 supply_round_of(order, hospital_messages, inventory))

(***************************************************************************)
(* optimization/constraints.py                                             *)
(***************************************************************************)
\* dict.get(hospital_id, 0) on a remaining-capacity map
RemainingGet(remaining, hospital_id) ==
    IF hospital_id \in DOMAIN remaining THEN remaining[hospital_id] ELSE 0

Reject(allocation, reason) ==
    [ patient_id |-> allocation.patient_id,
      patient_severity |-> allocation.patient_severity,
      assigned_hospital |-> allocation.assigned_hospital,
      rejection_reason |-> reason ]

\* the loop of filter_valid_allocations over the proposals that are left;
\* seen is the caller's list so far, where a rejected proposal has got its
\* "rejection_reason" key in place
RECURSIVE filter_loop(_, _, _, _, _, _)
filter_loop(proposed, remaining_beds, remaining_icu, valid, rejected, seen) ==
    IF proposed = <<>> THEN [valid |-> valid, rejected |-> rejected, proposed |-> seen]
    ELSE LET allocation == Head(proposed)
             hospital_id == allocation.assigned_hospital
         IN  IF allocation.patient_severity = "critical"
             THEN IF RemainingGet(remaining_icu, hospital_id) > 0
                  THEN filter_loop(Tail(proposed), remaining_beds,
                                   [remaining_icu EXCEPT ![hospital_id] = @ - 1],
                                   Append(valid, allocation), rejected,
                                   Append(seen, allocation))
                  ELSE filter_loop(Tail(proposed), remaining_beds, remaining_icu, valid,
                                   Append(rejected, Reject(allocation, "No ICU capacity")),
                                   Append(seen, Reject(allocation, "No ICU capacity")))
             ELSE IF RemainingGet(remaining_beds, hospital_id) > 0
                  THEN filter_loop(Tail(proposed),
                                   [remaining_beds EXCEPT ![hospital_id] = @ - 1],
                                   remaining_icu,
                                   Append(valid, allocation), rejected,
                                   Append(seen, allocation))
                  ELSE filter_loop(Tail(proposed), remaining_beds, remaining_icu, valid,
                                   Append(rejected, Reject(allocation, "No bed capacity")),
                                   Append(seen, Reject(allocation, "No bed capacity")))

\* a filter that passes over the proposals that carry a "rejection_reason"
filter_valid_allocations_unmarked(proposed, hospital_states) ==
    LET fresh == SelectSeq(proposed, LAMBDA a : "rejection_reason" \notin DOMAIN a)
        done == filter_loop(fresh,
                    [h \in DOMAIN hospital_states |-> hospital_states[h].available_beds],
                    [h \in DOMAIN hospital_states |-> hospital_states[h].icu_available],
                    <<>>, <<>>, <<>>)
        marked == filter_loop(proposed,
                    [h \in DOMAIN hospital_states |-> hospital_states[h].available_beds],
                    [h \in DOMAIN hospital_states |-> hospital_states[h].icu_available],
                    <<>>, <<>>, <<>>)
    IN  [done EXCEPT !.proposed = marked.proposed]

\* ConstraintChecker.filter_valid_allocations(proposed, hospitals, ambulances)
filter_valid_allocations(proposed, hospital_states) ==
    filter_loop(proposed,
                [h \in DOMAIN hospital_states |-> hospital_states[h].available_beds],
                [h \in DOMAIN hospital_states |-> hospital_states[h].icu_available],
                <<>>, <<>>, <<>>)

(***************************************************************************)
(* utils/failure_handler.py                                                *)
(***************************************************************************)
FailureTypes == <<"no_beds_anywhere", "oxygen_exhausted", "no_ambulances", "supply_depleted">>

RECURSIVE SumOver(_, _)
SumOver(S, f) ==
    IF S = {} THEN 0
    ELSE LET x == CHOOSE y \in S : TRUE IN f[x] + SumOver(S \ {x}, f)

\* FailureHandler.detect_failures: the detected types, in the order of the checks
detect_failures(hospital_states, ambulance_states, supply_state) ==
    LET total_beds == SumOver(DOMAIN hospital_states,
                              [h \in DOMAIN hospital_states |-> hospital_states[h].available_beds])
        total_icu == SumOver(DOMAIN hospital_states,
                             [h \in DOMAIN hospital_states |-> hospital_states[h].icu_available])
        hospitals_without_oxygen ==
            {h \in DOMAIN hospital_states : hospital_states[h].oxygen_units <= 5}
        available_ambulances ==
            {a \in DOMAIN ambulance_states :
                ambulance_states[a].available /\ ambulance_states[a].fuel > 15}
        depleted == {s \in {"oxygen", "medicine"} :
                        InventoryGet(supply_state.inventory, s) <= 10}
    IN  (IF total_beds = 0 /\ total_icu = 0 THEN <<"no_beds_anywhere">> ELSE <<>>)
        \o (IF 2 * Cardinality(hospitals_without_oxygen) >= Cardinality(DOMAIN hospital_states)
            THEN <<"oxygen_exhausted">> ELSE <<>>)
        \o (IF available_ambulances = {} THEN <<"no_ambulances">> ELSE <<>>)
        \o (IF depleted # {} THEN <<"supply_depleted">> ELSE <<>>)

\* the loop of check_and_handle_failures that handles every detected failure
handle_all(active, failures) ==
    [active_failures |-> active \o failures, responses |-> failures]

\* the loop of check_and_handle_failures: a failure whose type is already in
\* active_failures is skipped, any other is handled and becomes active
RECURSIVE handle_new(_, _)
handle_new(active, failures) ==
    IF failures = <<>> THEN [active_failures |-> active, responses |-> <<>>]
    ELSE IF \E i \in 1..Len(active) : active[i] = Head(failures)
    THEN handle_new(active, Tail(failures))
    ELSE LET rest == handle_new(Append(active, Head(failures)), Tail(failures))
         IN  [active_failures |-> rest.active_failures,
              responses |-> <<Head(failures)>> \o rest.responses]

\* what one call leaves: the handler's list and the monitor record
monitor_record(ever, failures, handled) ==
    [ active_failures |-> handled.active_failures,
      monitor |-> [ detected |-> failures,
                    responses |-> handled.responses,
                    ever |-> ever \cup Range(failures) ] ]

handle_detected(active, ever, failures) ==
    monitor_record(ever, failures, handle_new(active, failures))

\* FailureHandler.check_and_handle_failures
check_and_handle_failures(active, ever, hospital_states, ambulance_states, supply_state) ==
    handle_detected(active, ever,
                    detect_failures(hospital_states, ambulance_states, supply_state))

(***************************************************************************)
(* Scenarios of the orchestrator: config/scenario.py and the draws of      *)
(* simulation/data_generator.py                                            *)
(***************************************************************************)
\* beds of a hospital of the scenario, above the batch size of a round
SurgeBeds == 12
\* length of the long initial casualty list (count=120 in the source)
MaxCasualties == 12
\* patients one inflow draw may add
MaxInflow == 1

\* (available_beds, icu_available, oxygen_units) of the hospital profiles
HospitalProfiles ==
    { <<0, 0, 20000>>, <<1, 0, 20000>>, <<1, 1, 20000>>,
      <<SurgeBeds - 1, 1, 20000>>, <<0, 1, 3000>>, <<0, 0, 0>> }

SimHospitalConfigs(id, profiles) ==
    { [ location |-> HospitalLocation(id),
        total_beds |-> SurgeBeds, available_beds |-> p[1],
        icu_beds |-> MaxIcu, icu_available |-> p[2],
        oxygen_units |-> p[3], doctors_on_duty |-> 2, patient_inflow_rate |-> 2 ] :
      p \in profiles }

AmbulanceLocation(id) == IF id = "AMB-1" THEN 30 ELSE 54

AmbulanceConfig(id, available, fuel) ==
    [location |-> AmbulanceLocation(id), capacity |-> 2, fuel |-> fuel,
     available |-> available]

\* both fit for service; one out of service and one short of fuel; one fit
Fleets ==
    { [a \in {"AMB-1", "AMB-2"} |-> AmbulanceConfig(a, TRUE, 90)],
      [a \in {"AMB-1", "AMB-2"} |->
          IF a = "AMB-1" THEN AmbulanceConfig(a, FALSE, 90)
          ELSE AmbulanceConfig(a, TRUE, 10)],
      [a \in {"AMB-1", "AMB-2"} |->
          IF a = "AMB-1" THEN AmbulanceConfig(a, FALSE, 90)
          ELSE AmbulanceConfig(a, TRUE, 90)] }

\* SUPPLY_CONFIG: "inventory" is the shape the file has (a nested inventory
\* dict, no food_units / water_units / oxygen_units / medicine_units keys),
\* "flat" the shape Simulator.initialize reads
SupplyConfigs ==
    { [shape |-> "inventory", location |-> 50, food_units |-> 500, water_units |-> 1000,
       oxygen_units |-> 20000, medicine_units |-> 500, delivery_vehicles |-> 4],
      [shape |-> "flat", location |-> 50, food_units |-> 500, water_units |-> 1000,
       oxygen_units |-> 20000, medicine_units |-> 500, delivery_vehicles |-> 4],
      [shape |-> "flat", location |-> 50, food_units |-> 500, water_units |-> 1000,
       oxygen_units |-> 50, medicine_units |-> 10, delivery_vehicles |-> 1] }

Scenarios ==
    [ hospitals  : { [h \in {"hospital_a", "hospital_b"} |->
                        IF h = "hospital_a" THEN ca ELSE cb] :
                     ca \in SimHospitalConfigs("hospital_a", HospitalProfiles),
                     cb \in SimHospitalConfigs("hospital_b",
                              {<<0, 0, 20000>>, <<1, 1, 20000>>, <<0, 0, 0>>}) },
      ambulances : Fleets,
      supply     : SupplyConfigs,
      government : {[disaster_severity |-> 80]} ]

Patient(id, severity, location) ==
    [ id |-> id, severity |-> severity, location |-> location,
      status |-> "waiting", assigned_hospital |-> None ]

CasualtyLocation(i) == 10 + ((13 * i) % 60)

\* the severities generate_initial_casualties may draw, as lists
CasualtySeverities ==
    LET few == {"critical", "high", "medium"}
        cycle == <<"critical", "high", "medium", "low">>
    IN  {<<>>}
        \cup {<<s>> : s \in few}
        \cup {<<s, t>> : s \in few, t \in few}
        \cup {[i \in 1..MaxCasualties |-> "medium"],
              [i \in 1..MaxCasualties |-> cycle[((i - 1) % 4) + 1]]}

\* DataGenerator.generate_initial_casualties: ids patient_000, patient_001, ...
generate_initial_casualties(severities) ==
    [i \in 1..Len(severities) |->
        Patient(<<-1, i - 1>>, severities[i], CasualtyLocation(i - 1))]

\* DataGenerator.generate_patient_inflow: ids patient_tick<tick>_<i>
InflowDraws ==
    {<<>>} \cup {[i \in 1..MaxInflow |-> s] : s \in {"critical", "medium"}}

generate_patient_inflow(generator_tick, severities) ==
    [i \in 1..Len(severities) |->
        Patient(<<generator_tick, i - 1>>, severities[i], 70)]

(***************************************************************************)
(* simulation/simulator.py                                                 *)
(***************************************************************************)
\* Step 4 of step(): hospital.can_accept_patient(pa["patient_severity"]) hands
\* the severity label to a comparison with the integer 2, which raises
\* TypeError for the first proposal whose hospital exists
commit_raises(patient_assignments, hs) ==
    \E i \in 1..Len(patient_assignments) :
        patient_assignments[i].assigned_hospital \in DOMAIN hs

\* Step 5 of step(): the dispatch loop over the ambulance assignments
RECURSIVE dispatch_loop(_, _, _, _)
dispatch_loop(ams, ambulance_assignments, hs, patients) ==
    IF ambulance_assignments = <<>> THEN ams
    ELSE LET aa == Head(ambulance_assignments)
             known == SelectSeq(patients, LAMBDA p : p.id = aa.patient_id)
         IN  IF /\ aa.ambulance_id \in DOMAIN ams
                /\ is_available(ams[aa.ambulance_id])
                /\ aa.hospital_id \in DOMAIN hs
                /\ known # <<>>
             THEN dispatch_loop(
                    [ams EXCEPT ![aa.ambulance_id] =
                        [assign_mission(@, Head(known), aa.hospital_id)
                            EXCEPT !.destination = hs[aa.hospital_id].location]],
                    Tail(ambulance_assignments), hs, patients)
             ELSE dispatch_loop(ams, Tail(ambulance_assignments), hs, patients)

\* Step 6 of step(): oxygen allocations become pending requests of the depot
pending_from(supply_allocations, hs) ==
    LET oxygen == SelectSeq(supply_allocations,
                            LAMBDA sa : sa.hospital_id \in DOMAIN hs /\ sa.resource = "oxygen")
    IN  [i \in 1..Len(oxygen) |->
            [ requester_id |-> oxygen[i].hospital_id,
              requester_location |-> hs[oxygen[i].hospital_id].location,
              supply_type |-> oxygen[i].resource,
              quantity |-> oxygen[i].quantity,
              urgency |-> oxygen[i].urgency ]]

\* Simulator.reset
Reset ==
    /\ running' = FALSE
    /\ tick' = 0
    /\ hospitals' = EmptyMap
    /\ ambulances' = EmptyMap
    /\ supply' = None
    /\ government' = None
    /\ waiting_patients' = <<>>
    /\ gen_tick' = 0
    /\ current_round' = 0
    /\ round_result' = NoRound
    /\ active_failures' = <<>>
    /\ monitor' = NoMonitor
    /\ step_result' = NoStep
    /\ validation' = NoValidation
    /\ UNCHANGED scenario

\* Simulator.initialize with a supply configuration that has the keys it reads
Initialize ==
    /\ scenario.supply.shape = "flat"
    /\ \E severities \in CasualtySeverities :
          waiting_patients' = generate_initial_casualties(severities)
    /\ hospitals' = [h \in DOMAIN scenario.hospitals |-> HospitalAgent(scenario.hospitals[h])]
    /\ ambulances' = [a \in DOMAIN scenario.ambulances |->
                         AmbulanceAgent(scenario.ambulances[a])]
    /\ supply' = SupplyAgent(scenario.supply)
    /\ government' = GovernmentAgent(scenario.government)
    /\ running' = TRUE
    /\ tick' = 0
    /\ gen_tick' = 0
    /\ current_round' = 0
    /\ round_result' = NoRound
    /\ active_failures' = <<>>
    /\ monitor' = NoMonitor
    /\ step_result' = NoStep
    /\ validation' = NoValidation
    /\ UNCHANGED scenario

\* Simulator.initialize with SUPPLY_CONFIG as it is in config/scenario.py:
\* SUPPLY_CONFIG["food_units"] raises KeyError after the hospitals and the
\* ambulances were created
InitializeRaises ==
    /\ scenario.supply.shape = "inventory"
    /\ hospitals' = [h \in DOMAIN scenario.hospitals |-> HospitalAgent(scenario.hospitals[h])]
    /\ ambulances' = [a \in DOMAIN scenario.ambulances |->
                         AmbulanceAgent(scenario.ambulances[a])]
    /\ supply' = None
    /\ government' = None
    /\ waiting_patients' = <<>>
    /\ running' = FALSE
    /\ tick' = 0
    /\ gen_tick' = 0
    /\ current_round' = 0
    /\ round_result' = NoRound
    /\ active_failures' = <<>>
    /\ monitor' = NoMonitor
    /\ step_result' = NoStep
    /\ validation' = NoValidation
    /\ UNCHANGED scenario

\* a step() that counts the tick before it looks at `running`
StepNotRunning_ticking ==
    /\ ~running
    /\ tick < MaxTick
    /\ tick' = tick + 1
    /\ step_result' = [outcome |-> "error", tick |-> tick, actions |-> <<>>, alerts |-> <<>>]
    /\ UNCHANGED <<scenario, running, hospitals, ambulances, supply, government,
                   waiting_patients, gen_tick, current_round, round_result,
                   active_failures, monitor, validation>>

\* Simulator.step while the simulation is not running: the error report
StepNotRunning ==
    /\ ~running
    /\ step_result' = [outcome |-> "error", tick |-> tick, actions |-> <<>>, alerts |-> <<>>]
    /\ UNCHANGED <<scenario, running, tick, hospitals, ambulances, supply, government,
                   waiting_patients, gen_tick, current_round, round_result,
                   active_failures, monitor, validation>>

\* the patients step() holds after its inflow phase
AfterInflow(severities) ==
    waiting_patients \o generate_patient_inflow(gen_tick, severities)

\* the round step() runs on the patients it holds after the inflow phase
RoundOf(patients) ==
    run_negotiation(current_round + 1,
                    Dict([h \in DOMAIN hospitals |-> HospitalMessage(h, hospitals[h])]),
                    Dict([a \in DOMAIN ambulances |-> AmbulanceMessage(a, ambulances[a])]),
                    SupplyMessage(supply).inventory,
                    calculate_priority_multipliers(hospitals),
                    SelectSeq(patients, LAMBDA p : p.status = "waiting"))

\* the round records that differ from a given one only in the outcome of the
\* ambulance scan
rounds_like(negotiation_result) ==
    { [negotiation_result EXCEPT !.ambulance_assignments = assignments] :
        assignments \in assign_ambulances_outcomes(
                            negotiation_result.patient_assignments,
                            negotiation_result.ambulance_messages,
                            negotiation_result.hospital_messages) }

\* the round records run_negotiation can return to step()
Rounds(patients) == rounds_like(RoundOf(patients))

\* Step 7 of step(): the agents' updates
UpdatedHospitals ==
    Dict([h \in DOMAIN hospitals |-> HospitalUpdate(hospitals[h], tick + 1)])

UpdatedAmbulances(dispatched) ==
    Dict([a \in DOMAIN dispatched |-> AmbulanceUpdate(dispatched[a])])

\* Step 6 and the depot's part of Step 7
UpdatedSupply(negotiation_result) ==
    SupplyUpdate(process_pending_requests(
        [supply_after_round(supply, SupplyMessage(supply), negotiation_result.available)
            EXCEPT !.pending_requests =
            @ \o pending_from(negotiation_result.supply_allocations, hospitals)]))

\* Step 8 of step(): the failure check on the updated agents' states
Checked(hospitals_updated, ambulances_updated, supply_updated) ==
    check_and_handle_failures(
        active_failures, monitor.ever,
        [h \in DOMAIN hospitals_updated |-> HospitalState(hospitals_updated[h])],
        [a \in DOMAIN ambulances_updated |-> AmbulanceState(ambulances_updated[a].agent)],
        SupplyState(supply_updated))

\* the step_result of a step that ran to its end, without its wall-clock
\* "timestamp"
CompletedReport(ambulances_updated, checked) ==
    LET ids == KeysInOrder(AmbulanceOrder, ambulances_updated)
        delivered == Concat([i \in 1..Len(ids) |->
                        SelectSeq(ambulances_updated[ids[i]].actions,
                                  LAMBDA act : act.type = "patient_delivered")])
    IN  [outcome |-> "ok", tick |-> tick + 1, actions |-> delivered,
         alerts |-> checked.monitor.responses]

\* what a step() that raised leaves to its caller
RaisedReport ==
    [outcome |-> "TypeError", tick |-> tick + 1, actions |-> <<>>, alerts |-> <<>>]

ReportAfter(hospitals_updated, ambulances_updated, supply_updated) ==
    CompletedReport(ambulances_updated,
                    Checked(hospitals_updated, ambulances_updated, supply_updated))

\* the report of step() on the patients it holds after the inflow phase, for
\* a round record run_negotiation returned
StepReport(patients, negotiation_result) ==
    IF commit_raises(negotiation_result.patient_assignments, hospitals)
    THEN RaisedReport
    ELSE ReportAfter(UpdatedHospitals,
                     UpdatedAmbulances(dispatch_loop(ambulances,
                                                     negotiation_result.ambulance_assignments,
                                                     hospitals, patients)),
                     UpdatedSupply(negotiation_result))

\* Simulator.step that raises TypeError in its commit phase: the tick, the
\* inflow and the round are done, nothing else is
StepRaises ==
    /\ running
    /\ tick < MaxTick
    /\ \E severities \in (IF (tick + 1) % 3 = 0 THEN InflowDraws ELSE {<<>>}) :
          \E patients \in {AfterInflow(severities)} :
          \E negotiation_result \in Rounds(patients) :
              /\ commit_raises(negotiation_result.patient_assignments, hospitals)
              /\ tick' = tick + 1
              /\ waiting_patients' = patients
              /\ current_round' = current_round + 1
              /\ round_result' = negotiation_result
              /\ step_result' = RaisedReport
              /\ supply' = supply_after_round(supply, SupplyMessage(supply),
                                              negotiation_result.available)
    /\ UNCHANGED <<scenario, running, hospitals, ambulances, government,
                   gen_tick, active_failures, monitor, validation>>

\* Simulator.step that runs to its end: nothing was proposed, so the commit
\* loop has no body to run; supplies, the agents' updates and the failure
\* check follow, and the generator's tick advances
StepCompletes ==
    /\ running
    /\ tick < MaxTick
    /\ \E severities \in (IF (tick + 1) % 3 = 0 THEN InflowDraws ELSE {<<>>}) :
          \E patients \in {AfterInflow(severities)} :
          \E negotiation_result \in Rounds(patients) :
          ~commit_raises(negotiation_result.patient_assignments, hospitals) /\
          \E dispatched \in {dispatch_loop(ambulances,
                                           negotiation_result.ambulance_assignments,
                                           hospitals, patients)} :
          \E hospitals_updated \in {UpdatedHospitals} :
          \E ambulances_updated \in {UpdatedAmbulances(dispatched)} :
          \E supply_updated \in {UpdatedSupply(negotiation_result)} :
          \E checked \in {Checked(hospitals_updated, ambulances_updated, supply_updated)} :
              /\ tick' = tick + 1
              /\ waiting_patients' = patients
              /\ current_round' = current_round + 1
              /\ round_result' = negotiation_result
              /\ hospitals' = hospitals_updated
              /\ ambulances' = [a \in DOMAIN ambulances_updated |->
                                   ambulances_updated[a].agent]
              /\ supply' = supply_updated
              /\ government' = GovernmentUpdate(government, tick + 1)
              /\ active_failures' = checked.active_failures
              /\ monitor' = checked.monitor
              /\ step_result' = CompletedReport(ambulances_updated, checked)
              /\ gen_tick' = gen_tick + 1
    /\ UNCHANGED <<scenario, running, validation>>

Init ==
    /\ scenario \in Scenarios
    /\ Constructed

Next ==
    \/ Reset
    \/ Initialize
    \/ InitializeRaises
    \/ StepNotRunning
    \/ StepRaises
    \/ StepCompletes

Spec == Init /\ [][Next]_vars

(***************************************************************************)
(* Properties of the orchestrator (Spec)                                   *)
(***************************************************************************)
\* acuity 1 and 2 need an ICU slot, acuity 3 to 5 a general bed
NeedsIcu(severity) == SEVERITY_TO_ESI(severity) <= 2

\* the proposals of the last round that target hospital h, by required class
IcuProposals(h) ==
    Len(SelectSeq(round_result.patient_assignments,
                  LAMBDA pa : pa.assigned_hospital = h /\ NeedsIcu(pa.patient_severity)))

BedProposals(h) ==
    Len(SelectSeq(round_result.patient_assignments,
                  LAMBDA pa : pa.assigned_hospital = h /\ ~NeedsIcu(pa.patient_severity)))

\* C3: within one negotiation round, for every hospital, the proposals that
\* need an ICU slot never exceed the hospital's icu_available in the snapshot
\* the round started from, and the proposals that need a general bed never
\* exceed its available_beds
C3_NoOvercommit ==
    \A h \in DOMAIN round_result.hospital_messages :
        /\ IcuProposals(h) <= round_result.hospital_messages[h].icu_available
        /\ BedProposals(h) <= round_result.hospital_messages[h].available_beds

\* C4: an acuity-1 or acuity-2 patient ('critical', 'high') is never placed
\* in a general bed: the round matches it against the ICU counter of the
\* hospital (the tentative counters the round leaves are the snapshot minus
\* the proposals of each class), and an admitted one holds an ICU slot
C4_AcuityRouting ==
    /\ \A h \in DOMAIN round_result.hospital_messages :
          /\ round_result.hospital_capacity[h].icu
               = round_result.hospital_messages[h].icu_available - IcuProposals(h)
          /\ round_result.hospital_capacity[h].beds
               = round_result.hospital_messages[h].available_beds - BedProposals(h)
    /\ \A h \in DOMAIN hospitals :
          \A i \in 1..Len(hospitals[h].patients_admitted) :
              hospitals[h].patients_admitted[i].esi_level <= 2
                 => hospitals[h].patients_admitted[i].unit = "ICU"

\* the step report of the last tick records the proposal as committed
Committed(pa) ==
    \E i \in 1..Len(step_result.actions) :
        /\ step_result.actions[i].type = "patient_assigned"
        /\ step_result.actions[i].patient = pa.patient_id

\* the step report of the last tick records the proposal as rejected
ReportedRejected(pa) ==
    \E i \in 1..Len(step_result.actions) :
        /\ step_result.actions[i].type = "proposal_rejected"
        /\ step_result.actions[i].patient = pa.patient_id

StillWaiting(patient_id) ==
    \E i \in 1..Len(waiting_patients) :
        /\ waiting_patients[i].id = patient_id
        /\ waiting_patients[i].status = "waiting"

\* C6: every patient proposal the engine produced in a tick is committed or
\* is in that tick's step report as rejected with a reason, and the patient
\* of a proposal that was not committed is still waiting
C6_NeverSilentlyDropped ==
    \A i \in 1..Len(round_result.patient_assignments) :
        LET pa == round_result.patient_assignments[i]
        IN  /\ Committed(pa) \/ ReportedRejected(pa)
            /\ ~Committed(pa) => StillWaiting(pa.patient_id)

\* some hospital of the round's snapshot has the class the patient requires
HospitalCandidate(p) ==
    \E h \in DOMAIN round_result.hospital_messages :
        IF NeedsIcu(p.severity)
        THEN round_result.hospital_messages[h].icu_available > 0
        ELSE round_result.hospital_messages[h].available_beds > 0

\* some ambulance is available (is_available) when the round starts
AmbulanceCandidate ==
    \E a \in DOMAIN round_result.ambulance_messages :
        round_result.ambulance_messages[a].offers # <<>>

Proposed(patient_id) ==
    \E i \in 1..Len(round_result.patient_assignments) :
        round_result.patient_assignments[i].patient_id = patient_id

\* C7: a patient of the round for whom no hospital has the required capacity
\* class, or for whom no ambulance is available, gets no proposal and is
\* still waiting after the tick
C7_NoCandidateNoProposal ==
    \A i \in 1..Len(round_result.waiting) :
        LET p == round_result.waiting[i]
        IN  (~HospitalCandidate(p) \/ ~AmbulanceCandidate)
               => (~Proposed(p.id) /\ StillWaiting(p.id))

\* one tick of a running simulation
Tick == tick' = tick + 1

AdmittedAfter(patient_id) ==
    \E h \in DOMAIN hospitals' :
        \E i \in 1..Len(hospitals'[h].patients_admitted) :
            hospitals'[h].patients_admitted[i].id = patient_id

\* at most BatchCap patients are matched by the round of the tick
BatchBounded == Len(round_result'.patient_assignments) <= BatchCap

\* every patient waiting before the tick is handed to the round of the tick
RetriedNextTick ==
    \A i \in 1..Len(waiting_patients) :
        waiting_patients[i].status = "waiting"
           => \E k \in 1..Len(round_result'.waiting) :
                 round_result'.waiting[k].id = waiting_patients[i].id

\* every patient of the round that the tick did not commit is waiting after it
UncommittedStayWaiting ==
    \A k \in 1..Len(round_result'.waiting) :
        ~AdmittedAfter(round_result'.waiting[k].id)
           => \E i \in 1..Len(waiting_patients') :
                 /\ waiting_patients'[i].id = round_result'.waiting[k].id
                 /\ waiting_patients'[i].status = "waiting"

\* C8: at most 10 patients are matched in any tick; a waiting patient that a
\* tick did not commit still has status waiting and is in the patient list
\* handed to the negotiation engine in the next tick
C8_Backpressure ==
    [][Tick => (BatchBounded /\ RetriedNextTick /\ UncommittedStayWaiting)]_vars

\* a second or later round that was handed more patients than the batch size
\* and matched exactly BatchCap of them
C8_Witness ==
    /\ round_result.round >= 2
    /\ Len(round_result.waiting) > BatchCap
    /\ Len(round_result.patient_assignments) = BatchCap
    /\ \A i \in 1..Len(round_result.waiting) : StillWaiting(round_result.waiting[i].id)

(***************************************************************************)
(* ValidationSpec: ConstraintChecker.filter_valid_allocations applied to a *)
(* list of proposals and the ledgers of two hospitals                      *)
(***************************************************************************)
\* largest free count of a class in a ledger handed to the filter
MaxFree == 1
\* longest list of proposals handed to the filter
MaxProposals == 3

Proposals ==
    [ patient_severity : {"critical", "high", "medium"},
      assigned_hospital : {"hospital_a", "hospital_b"} ]

\* the proposals of one round: patient i of the list is patient_00i
ProposalLists ==
    UNION { { [i \in 1..n |->
                 [ patient_id |-> <<-1, i - 1>>,
                   patient_severity |-> f[i].patient_severity,
                   assigned_hospital |-> f[i].assigned_hospital ]] :
              f \in [1..n -> Proposals] } : n \in 0..MaxProposals }

LedgerStates ==
    [ {"hospital_a", "hospital_b"} ->
         [available_beds : 0..MaxFree, icu_available : 0..MaxFree] ]

ValidationInit ==
    /\ \E proposed \in ProposalLists, hospital_states \in LedgerStates :
          validation = [NoValidation EXCEPT !.proposed = proposed,
                                            !.hospitals = hospital_states]
    /\ scenario = None
    /\ running = FALSE
    /\ tick = 0
    /\ hospitals = EmptyMap
    /\ ambulances = EmptyMap
    /\ supply = None
    /\ government = None
    /\ waiting_patients = <<>>
    /\ gen_tick = 0
    /\ current_round = 0
    /\ round_result = NoRound
    /\ active_failures = <<>>
    /\ monitor = NoMonitor
    /\ step_result = NoStep

\* a caller runs the filter on the proposals and ledgers it holds
FilterValidAllocations ==
    /\ ~validation.called
    /\ \E result \in {filter_valid_allocations(validation.proposed, validation.hospitals)} :
          validation' = [validation EXCEPT !.called = TRUE,
                                           !.proposed = result.proposed,
                                           !.valid = result.valid,
                                           !.rejected = result.rejected]
    /\ UNCHANGED <<scenario, running, tick, hospitals, ambulances, supply, government,
                   waiting_patients, gen_tick, current_round, round_result,
                   active_failures, monitor, step_result>>

\* the caller runs the filter once more on the same list of proposals, as
\* the first call left it, and on the same ledgers
FilterValidAllocationsAgain ==
    /\ validation.called
    /\ ~validation.repeated
    /\ \E result \in {filter_valid_allocations(validation.proposed, validation.hospitals)} :
          validation' = [validation EXCEPT !.repeated = TRUE,
                                           !.proposed = result.proposed,
                                           !.valid_again = result.valid,
                                           !.rejected_again = result.rejected]
    /\ UNCHANGED <<scenario, running, tick, hospitals, ambulances, supply, government,
                   waiting_patients, gen_tick, current_round, round_result,
                   active_failures, monitor, step_result>>

ValidationNext ==
    \/ FilterValidAllocations
    \/ FilterValidAllocationsAgain

ValidationSpec == ValidationInit /\ [][ValidationNext]_vars

\* the accepted proposals for hospital h, by required class
AcceptedIcu(h) ==
    Len(SelectSeq(validation.valid,
                  LAMBDA pa : pa.assigned_hospital = h /\ NeedsIcu(pa.patient_severity)))

AcceptedBed(h) ==
    Len(SelectSeq(validation.valid,
                  LAMBDA pa : pa.assigned_hospital = h /\ ~NeedsIcu(pa.patient_severity)))

\* C5: the filter checks the proposals in list order against a running
\* remaining-capacity counter per hospital and class: for every hospital the
\* accepted proposals of a class never exceed the ledger's free count of
\* that class, and every proposal is accepted or rejected with a reason
C5_SequentialValidation ==
    validation.called =>
        /\ \A h \in DOMAIN validation.hospitals :
              /\ AcceptedIcu(h) <= validation.hospitals[h].icu_available
              /\ AcceptedBed(h) <= validation.hospitals[h].available_beds
        /\ Len(validation.valid) + Len(validation.rejected) = Len(validation.proposed)
        /\ \A i \in 1..Len(validation.rejected) :
              validation.rejected[i].rejection_reason
                 \in {"No ICU capacity", "No bed capacity"}

(***************************************************************************)
(* FailureSpec: the failure monitor called tick after tick on the states   *)
(* of two hospitals, one ambulance and the depot                           *)
(***************************************************************************)
\* hospital_b is full, hospital_a decides whether any bed is free
MonitoredHospitals ==
    { [h \in {"hospital_a", "hospital_b"} |-> IF h = "hospital_a" THEN a ELSE b] :
      a \in [available_beds : {0, 1}, icu_available : {0, 1}, oxygen_units : {0, 30}],
      b \in [available_beds : {0}, icu_available : {0}, oxygen_units : {0, 30}] }

MonitoredAmbulances ==
    [ {"AMB-1"} -> [available : BOOLEAN, fuel : {10, 50}] ]

MonitoredSupply ==
    { [inventory |-> [food |-> 500, water |-> 1000, oxygen |-> ox, medicine |-> med]] :
      ox \in {5, 100}, med \in {100} }

FailureInit ==
    /\ scenario = None
    /\ Constructed

\* Step 8 of step(): failure_handler.check_and_handle_failures on the states
\* the agents report in this tick
CheckFailures ==
    /\ \E hospital_states \in MonitoredHospitals,
          ambulance_states \in MonitoredAmbulances,
          supply_state \in MonitoredSupply :
          \E checked \in {check_and_handle_failures(active_failures, monitor.ever,
                                                    hospital_states, ambulance_states,
                                                    supply_state)} :
              /\ active_failures' = checked.active_failures
              /\ monitor' = checked.monitor
    /\ UNCHANGED <<scenario, running, tick, hospitals, ambulances, supply, government,
                   waiting_patients, gen_tick, current_round, round_result,
                   step_result, validation>>

FailureNext == CheckFailures

FailureSpec == FailureInit /\ [][FailureNext]_vars

\* the alerts of type t the last call emitted
Alerts(m, t) == Len(SelectSeq(m.responses, LAMBDA r : r = t))

\* C9: a condition detected for the first time is alerted exactly once in
\* that tick, a condition that was detected in the tick before and is
\* detected again is not alerted again, and nothing undetected is alerted;
\* for NO_AMBULANCES and for every other condition type
C9_FailureDeduplication ==
    [][\A k \in 1..Len(FailureTypes) :
          LET t == FailureTypes[k]
          IN  /\ (t \in Range(monitor'.detected) /\ t \notin monitor.ever)
                    => Alerts(monitor', t) = 1
              /\ (t \in Range(monitor'.detected) /\ t \in Range(monitor.detected))
                    => Alerts(monitor', t) = 0
              /\ t \notin Range(monitor'.detected) => Alerts(monitor', t) = 0]_vars

\* no ambulance is available and fuelled in two ticks in a row: the second
\* call detects NO_AMBULANCES, holds it as active and emits no alert for it
C9_Witness ==
    /\ "no_ambulances" \in Range(monitor.detected)
    /\ "no_ambulances" \in Range(active_failures)
    /\ Alerts(monitor, "no_ambulances") = 0

\* C10: a condition that is detected in a tick and was not detected in the
\* tick before is a new activation and is alerted once, also when the same
\* condition had held, and stopped holding, earlier
C10_OneAlertPerActivation ==
    [][\A k \in 1..Len(FailureTypes) :
          LET t == FailureTypes[k]
          IN  (t \in Range(monitor'.detected) /\ t \notin Range(monitor.detected))
                 => Alerts(monitor', t) = 1]_vars

(***************************************************************************)
(* AllocationSpec: NegotiationEngine._allocate_supplies applied to the     *)
(* requests of two hospital messages and a depot inventory                 *)
(***************************************************************************)
\* longest request list of the message of hospital_a
MaxRequests == 4

RequestOptions ==
    { [resource |-> "oxygen", quantity |-> 40, urgency |-> "critical"],
      [resource |-> "oxygen", quantity |-> 30, urgency |-> "critical"],
      [resource |-> "oxygen", quantity |-> 30, urgency |-> "medium"],
      [resource |-> "medicine", quantity |-> 30, urgency |-> "high"],
      [resource |-> "ambulance_diversion", quantity |-> 1, urgency |-> "critical"] }

RequestLists(n) == UNION { [1..k -> RequestOptions] : k \in 0..n }

\* the keys of a hospital message that _allocate_supplies reads; hospital_a
\* carries the higher priority_score
RequestMessages ==
    { [h \in {"hospital_a", "hospital_b"} |->
          [ agent_id |-> h,
            requests |-> IF h = "hospital_a" THEN ra ELSE rb,
            priority_num |-> IF h = "hospital_a" THEN 3 ELSE 1,
            priority_den |-> 4 ]] :
      ra \in RequestLists(MaxRequests), rb \in RequestLists(2) }

DepotInventories ==
    { [food |-> 500, water |-> 1000, oxygen |-> ox, medicine |-> 20] : ox \in {50, 100} }

AllocationInit ==
    /\ \E messages \in RequestMessages, inventory \in DepotInventories :
          round_result = [NoRound EXCEPT !.hospital_messages = messages,
                                         !.inventory = inventory]
    /\ scenario = None
    /\ running = FALSE
    /\ tick = 0
    /\ hospitals = EmptyMap
    /\ ambulances = EmptyMap
    /\ supply = None
    /\ government = None
    /\ waiting_patients = <<>>
    /\ gen_tick = 0
    /\ current_round = 0
    /\ active_failures = <<>>
    /\ monitor = NoMonitor
    /\ step_result = NoStep
    /\ validation = NoValidation

\* Step 2 of run_negotiation on the messages and the inventory it was handed
AllocateSupplies ==
    /\ round_result.round = 0
    /\ \E supplied \in {supply_round(round_result.hospital_messages,
                                     round_result.inventory)} :
          round_result' = [round_result EXCEPT !.round = 1,
                                               !.supply_allocations = supplied.allocations,
                                               !.available = supplied.available]
    /\ current_round' = 1
    /\ UNCHANGED <<scenario, running, tick, hospitals, ambulances, supply, government,
                   waiting_patients, gen_tick, active_failures, monitor, step_result,
                   validation>>

AllocationNext == AllocateSupplies

AllocationSpec == AllocationInit /\ [][AllocationNext]_vars

\* what the grants before grant i, and all grants, took of a resource
GrantedBefore(i, resource) ==
    SumSeq([k \in 1..(i - 1) |->
               IF round_result.supply_allocations[k].resource = resource
               THEN round_result.supply_allocations[k].quantity ELSE 0])

Granted(resource) == GrantedBefore(Len(round_result.supply_allocations) + 1, resource)

\* the priority key of a grant: its urgency, then the priority of its hospital
GrantNotAfter(a, b) ==
    \/ urgency_order(a.urgency) < urgency_order(b.urgency)
    \/ /\ urgency_order(a.urgency) = urgency_order(b.urgency)
       /\ round_result.hospital_messages[a.hospital_id].priority_num
            * round_result.hospital_messages[b.hospital_id].priority_den
          >= round_result.hospital_messages[b.hospital_id].priority_num
               * round_result.hospital_messages[a.hospital_id].priority_den

\* the oxygen requests of the round are one for 40 and, after it, one for 30
FortyThenThirty ==
    /\ round_result.inventory["oxygen"] = 50
    /\ round_result.hospital_messages["hospital_a"].requests
         = <<[resource |-> "oxygen", quantity |-> 40, urgency |-> "critical"]>>
    /\ round_result.hospital_messages["hospital_b"].requests
         = <<[resource |-> "oxygen", quantity |-> 30, urgency |-> "critical"]>>

\* C11: the grants of a round follow the priority order, each grant is
\* min(requested, remaining of the resource), the tentative inventory never
\* goes below 0 and is the snapshot minus the grants, the grants of one
\* resource never sum to more than the snapshot; inventory {oxygen: 50} with
\* requests for 40 then 30 gives the grants 40 and 10 and ends at 0
C11_GreedySupplyClamping ==
    round_result.round > 0 =>
        /\ \A i \in 1..Len(round_result.supply_allocations) :
              LET a == round_result.supply_allocations[i]
                  remaining == round_result.inventory[a.resource]
                                 - GrantedBefore(i, a.resource)
              IN  /\ a.quantity > 0
                  /\ \E k \in 1..Len(round_result.hospital_messages[a.hospital_id].requests) :
                        LET req == round_result.hospital_messages[a.hospital_id].requests[k]
                        IN  /\ req.resource = a.resource
                            /\ req.urgency = a.urgency
                            /\ a.quantity = Min(req.quantity, remaining)
                  /\ \A j \in (i + 1)..Len(round_result.supply_allocations) :
                        GrantNotAfter(a, round_result.supply_allocations[j])
        /\ \A r \in DOMAIN round_result.inventory :
              /\ round_result.available[r] >= 0
              /\ round_result.available[r] = round_result.inventory[r] - Granted(r)
              /\ Granted(r) <= round_result.inventory[r]
        /\ FortyThenThirty =>
              /\ Len(round_result.supply_allocations) = 2
              /\ round_result.supply_allocations[1].quantity = 40
              /\ round_result.supply_allocations[2].quantity = 10
              /\ round_result.available["oxygen"] = 0

\* the round of the scenario: 40 and 10 granted, nothing left
C11_Witness ==
    /\ round_result.round > 0
    /\ FortyThenThirty
    /\ Len(round_result.supply_allocations) = 2
    /\ round_result.available["oxygen"] = 0

(***************************************************************************)
(* Determinism of the step                                                 *)
(***************************************************************************)
\* a step of the running simulation has the inflow of its tick as the tail
\* of the waiting list it leaves
InflowOfStep == SubSeq(waiting_patients', Len(waiting_patients) + 1, Len(waiting_patients'))

PatientsUntouched ==
    \A i \in 1..Len(waiting_patients) : waiting_patients'[i] = waiting_patients[i]

\* C13: run_negotiation changes no hospital ledger field, no ambulance
\* field, no depot inventory entry and no patient status: a step that ended
\* right after its round (the commit raised) leaves them all as they were,
\* the round's tentative counts live in the round record only, and the
\* ledgers after a step that ran to its end are the commit and time-step
\* phases applied to the ledgers the round started from
C13_ImmutableSnapshot ==
    [][Tick =>
        /\ PatientsUntouched
        /\ round_result'.inventory = supply.inventory
        /\ step_result'.outcome = "TypeError" =>
              /\ hospitals' = hospitals
              /\ ambulances' = ambulances
              /\ supply' = supply
        /\ step_result'.outcome = "ok" =>
              /\ hospitals' = UpdatedHospitals
              /\ ambulances' = [a \in DOMAIN ambulances |->
                                   AmbulanceUpdate(
                                       dispatch_loop(ambulances,
                                                     round_result'.ambulance_assignments,
                                                     hospitals, waiting_patients')[a]).agent]
              /\ supply' = SupplyUpdate(process_pending_requests(
                               [supply EXCEPT !.pending_requests =
                                   @ \o pending_from(round_result'.supply_allocations,
                                                     hospitals)]))]_vars

\* a round granted supplies and proposed patients, its tentative inventory
\* differs from the depot's, and the depot still holds what the round saw
C13_Witness ==
    /\ step_result.outcome = "TypeError"
    /\ round_result.patient_assignments # <<>>
    /\ round_result.supply_allocations # <<>>
    /\ round_result.available # round_result.inventory
    /\ supply.inventory = round_result.inventory

(***************************************************************************)
(* AmbulanceSpec: the fleet driven through dispatch and update             *)
(***************************************************************************)
\* missions the fleet may be given in one behaviour
MaxMissions == 2

\* AMB-1 starts far from both hospitals, with a full tank or one just above
\* the critical level, and seats one or two; AMB-2 is in or out of service
MissionFleets ==
    { [a \in {"AMB-1", "AMB-2"} |->
          IF a = "AMB-1"
          THEN [location |-> 0, capacity |-> capacity, fuel |-> fuel, available |-> TRUE]
          ELSE [location |-> 54, capacity |-> 2, fuel |-> 90, available |-> available]] :
      capacity \in 1..2, fuel \in {FUEL_CRITICAL_LEVEL + 1, 90}, available \in BOOLEAN }

MissionPatients == generate_initial_casualties(<<"critical", "medium">>)

\* the ambulance assignments a round may hand to the dispatch, one of them
\* for a patient that is not in the waiting list
MissionAssignments ==
    [ ambulance_id : {"AMB-1", "AMB-2"},
      patient_id   : {MissionPatients[i].id : i \in 1..Len(MissionPatients)} \cup {<<9, 9>>},
      hospital_id  : {"hospital_a", "hospital_b"} ]

\* missions given so far: the units under way and the patients delivered
Missions ==
    SumSeq([i \in 1..Len(AmbulanceOrder) |->
              ambulances[AmbulanceOrder[i]].patients_delivered
                + (IF ambulances[AmbulanceOrder[i]].status = "idle" THEN 0 ELSE 1)])

AmbulanceInit ==
    /\ scenario = None
    /\ running = FALSE
    /\ tick = 0
    /\ hospitals = [h \in {"hospital_a", "hospital_b"} |->
                      HospitalAgent(CHOOSE c \in SimHospitalConfigs(h, {<<1, 1, 20000>>}) : TRUE)]
    /\ \E fleet \in MissionFleets :
          ambulances = [a \in DOMAIN fleet |-> AmbulanceAgent(fleet[a])]
    /\ supply = None
    /\ government = None
    /\ waiting_patients = MissionPatients
    /\ gen_tick = 0
    /\ current_round = 0
    /\ round_result = NoRound
    /\ active_failures = <<>>
    /\ monitor = NoMonitor
    /\ step_result = NoStep
    /\ validation = NoValidation

\* Step 5 of Simulator.step for one ambulance assignment
DispatchAmbulance ==
    /\ Missions < MaxMissions
    /\ \E aa \in MissionAssignments :
          ambulances' = dispatch_loop(ambulances, <<aa>>, hospitals, waiting_patients)
    /\ UNCHANGED <<scenario, running, tick, hospitals, supply, government,
                   waiting_patients, gen_tick, current_round, round_result,
                   active_failures, monitor, step_result, validation>>

\* AmbulanceAgent.receive_message with a "patient_assignment" message
HandlePatientAssignment ==
    /\ Missions < MaxMissions
    /\ \E a \in DOMAIN ambulances, i \in 1..Len(waiting_patients),
          hospital_id \in DOMAIN hospitals :
          /\ is_available(ambulances[a])
          /\ ambulances' = [ambulances EXCEPT
                               ![a] = assign_mission(@, waiting_patients[i], hospital_id)]
    /\ UNCHANGED <<scenario, running, tick, hospitals, supply, government,
                   waiting_patients, gen_tick, current_round, round_result,
                   active_failures, monitor, step_result, validation>>

\* Step 7 of Simulator.step for the fleet: ambulance.update of every unit
UpdateAmbulances ==
    /\ ambulances' = [a \in DOMAIN ambulances |-> AmbulanceUpdate(ambulances[a]).agent]
    /\ UNCHANGED <<scenario, running, tick, hospitals, supply, government,
                   waiting_patients, gen_tick, current_round, round_result,
                   active_failures, monitor, step_result, validation>>

AmbulanceNext ==
    \/ DispatchAmbulance
    \/ HandlePatientAssignment
    \/ UpdateAmbulances

AmbulanceSpec == AmbulanceInit /\ [][AmbulanceNext]_vars

\* the ticks keep coming: step() is called as long as the simulation runs
AmbulanceFairSpec == AmbulanceSpec /\ WF_vars(UpdateAmbulances)

\* the status changes of the transport-unit state machine
StatusChanges ==
    { <<"idle", "en_route_pickup">>,
      <<"en_route_pickup", "en_route_hospital">>,
      <<"en_route_hospital", "idle">> }

\* every status change of a unit is one of the state machine
StatusChangesOnly ==
    [][\A a \in DOMAIN ambulances \cap DOMAIN ambulances' :
          ambulances'[a].status # ambulances[a].status =>
              <<ambulances[a].status, ambulances'[a].status>> \in StatusChanges]_vars

\* C14: a unit's status only changes idle -> en_route_pickup ->
\* en_route_hospital -> idle; the change to en_route_hospital happens on
\* arrival at the patient's location, where the patient is picked up, and
\* the change back to idle on arrival at the hospital
C14_TransportStateMachine ==
    [][\A a \in DOMAIN ambulances \cap DOMAIN ambulances' :
          LET before == ambulances[a]
              after == ambulances'[a]
          IN  /\ after.status # before.status =>
                    <<before.status, after.status>> \in StatusChanges
              /\ before.status = "en_route_pickup" /\ after.status = "en_route_hospital" =>
                    /\ after.location = before.target_patient.location
                    /\ after.current_patients = Append(before.current_patients,
                                                       before.target_patient)
              /\ before.status = "en_route_hospital" /\ after.status = "idle" =>
                    after.location = hospitals[before.target_hospital].location]_vars

\* C15: every unit that was given a mission is idle again with an empty
\* load after finitely many ticks, whatever its fuel does on the way
C15_MissionCompletion ==
    \A a \in {"AMB-1", "AMB-2"} :
        (ambulances[a].status # "idle")
            ~> (ambulances[a].status = "idle" /\ ambulances[a].current_patients = <<>>)

\* a unit is back idle after a delivery with an empty tank
C15_Witness ==
    \E a \in DOMAIN ambulances :
        /\ ambulances[a].status = "idle"
        /\ ambulances[a].current_patients = <<>>
        /\ ambulances[a].patients_delivered > 0
        /\ ambulances[a].fuel = 0

\* a unit under way with its fuel under the critical level
LowFuelUnderWay ==
    \E a \in DOMAIN ambulances :
        /\ ambulances[a].status # "idle"
        /\ ambulances[a].fuel < FUEL_CRITICAL_LEVEL

\* C18: every unit carries at most capacity patients, and an idle unit
\* carries none
C18_LoadBound ==
    \A a \in DOMAIN ambulances :
        /\ Len(ambulances[a].current_patients) <= ambulances[a].capacity
        /\ ambulances[a].status = "idle" => ambulances[a].current_patients = <<>>

\* a unit is under way to the hospital with every seat taken
C18_Witness ==
    \E a \in DOMAIN ambulances :
        /\ ambulances[a].status = "en_route_hospital"
        /\ Len(ambulances[a].current_patients) = ambulances[a].capacity

(***************************************************************************)
(* Ambulance selection of a round                                          *)
(***************************************************************************)
\* the units the assignments before the i-th one took
TakenBefore(i) ==
    {round_result.ambulance_assignments[j].ambulance_id :
        j \in 1..Min(i - 1, Len(round_result.ambulance_assignments))}

\* the units that are available (is_available in the snapshot of the round)
\* at the turn of the i-th patient proposal
FreeUnits(i) ==
    {a \in DOMAIN round_result.ambulance_messages :
        round_result.ambulance_messages[a].offers # <<>>} \ TakenBefore(i)

\* ETA of unit a for a proposal, projected from where the unit is
ProjectedEta(a, pa) ==
    3 * (Distance(scenario.ambulances[a].location, pa.patient_location)
           + Distance(pa.patient_location,
                      round_result.hospital_messages[pa.assigned_hospital].location))

\* C16: every ambulance proposal of a round is for a unit that is available
\* at that turn (load < capacity, fuel above the threshold, status idle) and
\* of minimal projected ETA among those, and a patient-hospital pair for
\* which such a unit exists at its turn gets an ambulance proposal
C16_AmbulanceSelection ==
    round_result.round > 0 =>
        \A i \in 1..Len(round_result.patient_assignments) :
            LET pa == round_result.patient_assignments[i]
                mine == SelectSeq(round_result.ambulance_assignments,
                                  LAMBDA aa : aa.patient_id = pa.patient_id)
            IN  /\ \A k \in 1..Len(mine) :
                      /\ mine[k].ambulance_id \in FreeUnits(i)
                      /\ \A b \in FreeUnits(i) :
                            ProjectedEta(mine[k].ambulance_id, pa) <= ProjectedEta(b, pa)
                /\ FreeUnits(i) # {} => mine # <<>>

\* the elements of a sequence are pairwise different
Distinct(s) == \A i, j \in 1..Len(s) : i # j => s[i] # s[j]

\* C17: within one round every ambulance id is in at most one ambulance
\* assignment, and every patient id in at most one patient assignment and
\* in at most one ambulance assignment
C17_NoDoubleBooking ==
    /\ Distinct([i \in 1..Len(round_result.ambulance_assignments) |->
                    round_result.ambulance_assignments[i].ambulance_id])
    /\ Distinct([i \in 1..Len(round_result.patient_assignments) |->
                    round_result.patient_assignments[i].patient_id])
    /\ Distinct([i \in 1..Len(round_result.ambulance_assignments) |->
                    round_result.ambulance_assignments[i].patient_id])

(***************************************************************************)
(* SupplySpec: the depot driven through its own operations                 *)
(***************************************************************************)
\* requests the depot may hold at once, and deliveries it may start in all
MaxPending == 2
MaxDeliveries == 3

\* _sort_requests_by_priority: list.sort by urgency, which is stable
sort_requests_by_priority(requests) ==
    LET rank(r) == IF r.urgency = "critical" THEN 0
                   ELSE IF r.urgency = "high" THEN 1
                   ELSE IF r.urgency = "low" THEN 3
                   ELSE 2
    IN  Concat([k \in 1..4 |-> SelectSeq(requests, LAMBDA r : rank(r) = k - 1)])

\* a depot with little stock and one or two vehicles
DepotConfigs ==
    { [shape |-> "flat", location |-> 50, food_units |-> 0, water_units |-> 10,
       oxygen_units |-> 50, medicine_units |-> 10, delivery_vehicles |-> v] : v \in 1..2 }

\* the resource requests a hospital may send: more than, as much as and less
\* than the depot holds
DepotRequests ==
    { [requester_id |-> "hospital_a", requester_location |-> 20, supply_type |-> "oxygen",
       quantity |-> 40, urgency |-> "critical"],
      [requester_id |-> "hospital_b", requester_location |-> 60, supply_type |-> "oxygen",
       quantity |-> 30, urgency |-> "high"],
      [requester_id |-> "hospital_b", requester_location |-> 60, supply_type |-> "medicine",
       quantity |-> 10, urgency |-> "medium"],
      [requester_id |-> "hospital_a", requester_location |-> 20, supply_type |-> "food",
       quantity |-> 5, urgency |-> "low"] }

Deliveries == Len(supply.active_deliveries) + Len(supply.completed_deliveries)

SupplyInit ==
    /\ scenario = None
    /\ running = FALSE
    /\ tick = 0
    /\ hospitals = EmptyMap
    /\ ambulances = EmptyMap
    /\ \E cfg \in DepotConfigs : supply = SupplyAgent(cfg)
    /\ government = None
    /\ waiting_patients = <<>>
    /\ gen_tick = 0
    /\ current_round = 0
    /\ round_result = NoRound
    /\ active_failures = <<>>
    /\ monitor = NoMonitor
    /\ step_result = NoStep
    /\ validation = NoValidation

\* SupplyAgent.receive_message with a "resource_request" message
HandleResourceRequest ==
    /\ Len(supply.pending_requests) < MaxPending
    /\ \E request \in DepotRequests :
          supply' = [supply EXCEPT !.pending_requests =
                        sort_requests_by_priority(Append(@, request))]
    /\ UNCHANGED <<scenario, running, tick, hospitals, ambulances, government,
                   waiting_patients, gen_tick, current_round, round_result,
                   active_failures, monitor, step_result, validation>>

\* SupplyAgent.allocate_supply called with any request's type and quantity
AllocateSupply ==
    /\ Deliveries < MaxDeliveries
    /\ \E request \in DepotRequests :
          supply' = allocate_supply(supply, request.supply_type, request.quantity,
                                    request.requester_id, request.requester_location)
    /\ UNCHANGED <<scenario, running, tick, hospitals, ambulances, government,
                   waiting_patients, gen_tick, current_round, round_result,
                   active_failures, monitor, step_result, validation>>

\* SupplyAgent.process_pending_requests
ProcessPendingRequests ==
    /\ Deliveries < MaxDeliveries
    /\ supply' = process_pending_requests(supply)
    /\ UNCHANGED <<scenario, running, tick, hospitals, ambulances, government,
                   waiting_patients, gen_tick, current_round, round_result,
                   active_failures, monitor, step_result, validation>>

\* SupplyAgent.update
UpdateSupply ==
    /\ supply' = SupplyUpdate(supply)
    /\ UNCHANGED <<scenario, running, tick, hospitals, ambulances, government,
                   waiting_patients, gen_tick, current_round, round_result,
                   active_failures, monitor, step_result, validation>>

SupplyNext ==
    \/ HandleResourceRequest
    \/ AllocateSupply
    \/ ProcessPendingRequests
    \/ UpdateSupply

SupplySpec == SupplyInit /\ [][SupplyNext]_vars

\* C19: every inventory quantity of the depot is at least 0 and
\* 0 <= vehicles_available <= delivery_vehicles, whatever requests are
\* pending and whatever deliveries are under way
C19_DepotBounds ==
    /\ \A k \in DOMAIN supply.inventory : supply.inventory[k] >= 0
    /\ supply.vehicles_available >= 0
    /\ supply.vehicles_available <= supply.delivery_vehicles

\* the same bounds for the depot of a running simulation
RunningDepotBounds == running => C19_DepotBounds

\* the depot has run out of a resource it has delivered, every vehicle is
\* out, and a request is still pending
C19_Witness ==
    /\ supply.inventory["oxygen"] = 0
    /\ supply.vehicles_available = 0
    /\ supply.delivery_vehicles = 2
    /\ supply.pending_requests # <<>>

\* C20: a second call of filter_valid_allocations on the same proposals and
\* the same ledgers returns the accepted and the rejected list of the first
C20_IdempotentValidation ==
    validation.repeated =>
        /\ validation.valid_again = validation.valid
        /\ validation.rejected_again = validation.rejected

\* the filter ran twice on a list of which it accepted some and rejected some
C20_Witness ==
    /\ validation.repeated
    /\ validation.valid # <<>>
    /\ validation.rejected # <<>>
    /\ validation.rejected_again # <<>>

\* C21: a call of the constraint checker leaves the ledgers it was given,
\* the proposals it was given and every other piece of state as they were
\* before the call
C21_ValidationNoSideEffect ==
    [][/\ validation'.proposed = validation.proposed
       /\ validation'.hospitals = validation.hospitals
       /\ UNCHANGED <<scenario, running, tick, hospitals, ambulances, supply, government,
                      waiting_patients, gen_tick, current_round, round_result,
                      active_failures, monitor, step_result>>]_vars

(***************************************************************************)
(* What a status query can observe                                         *)
(***************************************************************************)
\* every handler of main.py is an `async def` without an await, so the
\* event loop runs each to its end before the next: a status query observes
\* the state between two actions

\* the state reset() leaves: every ledger, the tick and the patient list cleared
FullyCleared ==
    /\ ~running
    /\ tick = 0
    /\ DOMAIN hospitals = {}
    /\ DOMAIN ambulances = {}
    /\ waiting_patients = <<>>

\* the state of an initialized simulation: every ledger of the scenario built
FullyInitialized ==
    /\ running
    /\ DOMAIN hospitals = DOMAIN scenario.hospitals
    /\ DOMAIN ambulances = DOMAIN scenario.ambulances

\* C22: a status query observes either a complete state of a simulation or
\* the complete cleared state, never one in which only part of the ledgers,
\* the tick counter or the patient list has been cleared or rebuilt
C22_AtomicReset == FullyCleared \/ FullyInitialized

\* the same for the scenarios whose supply configuration has the keys
\* initialize() reads
AtomicWhenInitializeReturns == scenario.supply.shape = "flat" => C22_AtomicReset

(***************************************************************************)
(* ConfigSpec: initialize() on scenario files with and without faults      *)
(***************************************************************************)
\* HOSPITALS_CONFIG entries for hospital_a, among them a zero total capacity
\* and capacity triples with more available than total
FaultyHospitalConfigs ==
    { [ location |-> HospitalLocation("hospital_a"),
        total_beds |-> tb, available_beds |-> ab,
        icu_beds |-> MaxIcu, icu_available |-> ia,
        oxygen_units |-> 20000, doctors_on_duty |-> 2, patient_inflow_rate |-> 2 ] :
      tb \in {0, MaxBeds}, ab \in {0, MaxBeds, MaxBeds + 1}, ia \in {0, MaxIcu + 1} }

ConfigScenarios ==
    [ hospitals  : { [h \in {"hospital_a", "hospital_b"} |->
                        IF h = "hospital_a" THEN ca ELSE cb] :
                     ca \in FaultyHospitalConfigs,
                     cb \in SimHospitalConfigs("hospital_b", {<<1, 1, 20000>>}) },
      ambulances : {[a \in {"AMB-1", "AMB-2"} |-> AmbulanceConfig(a, TRUE, 90)]},
      supply     : SupplyConfigs,
      government : {[disaster_severity |-> 80]} ]

ConfigInit ==
    /\ scenario \in ConfigScenarios
    /\ Constructed

ConfigNext ==
    \/ Reset
    \/ Initialize
    \/ InitializeRaises

ConfigSpec == ConfigInit /\ [][ConfigNext]_vars

\* zero total capacity, or more available than total in either class
Misconfigured(cfg) ==
    \/ cfg.total_beds = 0
    \/ cfg.available_beds > cfg.total_beds
    \/ cfg.icu_available > cfg.icu_beds

\* C23: with a hospital configured with zero total capacity or with an
\* inconsistent capacity triple, initialize() fails and the simulator does
\* not enter the running state
C23_MisconfigurationAborts ==
    (\E h \in DOMAIN scenario.hospitals : Misconfigured(scenario.hospitals[h]))
        => ~running

(***************************************************************************)
(* optimization/constraints.py: check_all_constraints                      *)
(***************************************************************************)
OXYGEN_CRITICAL_LEVEL == 20
\* "fuel >= 15%" on the percentage get_state reports
FuelWarningPercent == 15

Violation(type, agent, severity) == [type |-> type, agent |-> agent, severity |-> severity]

\* _check_hospital_constraints, for one hospital state
hospital_violations(h_id, h_state) ==
    (IF h_state.available_beds < 0
     THEN <<Violation("hospital_capacity", h_id, "critical")>> ELSE <<>>)
    \o (IF h_state.icu_available < 0
        THEN <<Violation("hospital_icu", h_id, "critical")>> ELSE <<>>)
    \o (IF h_state.oxygen_units < OXYGEN_CRITICAL_LEVEL
        THEN <<Violation("hospital_oxygen", h_id, "warning")>> ELSE <<>>)

\* _check_ambulance_constraints, for one ambulance state
ambulance_violations(a_id, a_state) ==
    (IF a_state.current_load > a_state.capacity
     THEN <<Violation("ambulance_capacity", a_id, "critical")>> ELSE <<>>)
    \o (IF a_state.fuel < FuelWarningPercent
        THEN <<Violation("ambulance_fuel", a_id, "warning")>> ELSE <<>>)

\* _check_supply_constraints
supply_violations(supply_state) ==
    LET types == <<"food", "water", "oxygen", "medicine">>
    IN  Concat([i \in 1..Len(types) |->
                  IF /\ types[i] \in DOMAIN supply_state.inventory
                     /\ supply_state.inventory[types[i]] < 0
                  THEN <<Violation("supply_inventory", types[i], "critical")>>
                  ELSE <<>>])

\* _check_allocation_constraints
allocation_violations(allocation, hospital_states) ==
    IF /\ allocation.type = "patient_assignment"
       /\ allocation.assigned_hospital \in DOMAIN hospital_states
    THEN LET h_state == hospital_states[allocation.assigned_hospital]
         IN  IF \/ allocation.patient_severity = "critical" /\ h_state.icu_available <= 0
                \/ allocation.patient_severity # "critical" /\ h_state.available_beds <= 0
             THEN <<Violation("allocation_invalid", allocation.assigned_hospital, "critical")>>
             ELSE <<>>
    ELSE <<>>

\* the violations list after check_all_constraints
all_violations(hospital_states, ambulance_states, supply_state, proposed) ==
    LET hs == KeysInOrder(HospitalOrder, hospital_states)
        as == KeysInOrder(AmbulanceOrder, ambulance_states)
    IN  Concat([i \in 1..Len(hs) |-> hospital_violations(hs[i], hospital_states[hs[i]])])
        \o Concat([i \in 1..Len(as) |-> ambulance_violations(as[i], ambulance_states[as[i]])])
        \o supply_violations(supply_state)
        \o Concat([i \in 1..Len(proposed) |->
                      allocation_violations(proposed[i], hospital_states)])

\* is_valid of check_all_constraints: len(self.violations) == 0
is_valid_of(violations) == Len(violations) = 0

\* ConstraintChecker.check_all_constraints: (is_valid, self.violations)
check_all_constraints(hospital_states, ambulance_states, supply_state, proposed) ==
    LET violations == all_violations(hospital_states, ambulance_states, supply_state, proposed)
    IN  [is_valid |-> is_valid_of(violations), violations |-> violations]

\* ConstraintChecker.get_violations_summary
get_violations_summary(violations) ==
    LET critical == SelectSeq(violations, LAMBDA v : v.severity = "critical")
        warnings == SelectSeq(violations, LAMBDA v : v.severity = "warning")
    IN  [ total_violations |-> Len(violations),
          critical_count |-> Len(critical),
          warning_count |-> Len(warnings),
          is_valid |-> Len(critical) = 0 ]

(***************************************************************************)
(* CheckSpec: check_all_constraints on the states a caller may hand it     *)
(***************************************************************************)
CheckedHospitals ==
    [ {"hospital_a", "hospital_b"} ->
         [available_beds : 0..MaxFree, icu_available : 0..MaxFree,
          oxygen_units : {OXYGEN_CRITICAL_LEVEL - 10, OXYGEN_CRITICAL_LEVEL}] ]

CheckedAmbulances ==
    { [a \in {"AMB-1"} |-> [current_load |-> load, capacity |-> 2, fuel |-> fuel]] :
      load \in {0, 3}, fuel \in {10, 90} }

CheckedProposals ==
    {<<>>}
    \cup { <<[type |-> "patient_assignment", patient_id |-> <<-1, 0>>,
              patient_severity |-> s, assigned_hospital |-> h]>> :
           s \in {"critical", "medium"}, h \in {"hospital_a", "hospital_b"} }

NoCheck == [is_valid |-> FALSE, violations |-> <<>>]

CheckInit ==
    /\ \E hospital_states \in CheckedHospitals, ambulance_states \in CheckedAmbulances,
          proposed \in CheckedProposals :
          validation = [ hospitals |-> hospital_states, ambulances |-> ambulance_states,
                         supply |-> [inventory |-> [food |-> 500, water |-> 1000,
                                                    oxygen |-> 0, medicine |-> 10]],
                         proposed |-> proposed, checked |-> FALSE,
                         result |-> NoCheck,
                         summary |-> get_violations_summary(<<>>) ]
    /\ scenario = None
    /\ running = FALSE
    /\ tick = 0
    /\ hospitals = EmptyMap
    /\ ambulances = EmptyMap
    /\ supply = None
    /\ government = None
    /\ waiting_patients = <<>>
    /\ gen_tick = 0
    /\ current_round = 0
    /\ round_result = NoRound
    /\ active_failures = <<>>
    /\ monitor = NoMonitor
    /\ step_result = NoStep

\* a caller runs check_all_constraints and asks for the summary
CheckAllConstraints ==
    /\ ~validation.checked
    /\ \E result \in {check_all_constraints(validation.hospitals, validation.ambulances,
                                            validation.supply, validation.proposed)} :
          validation' = [validation EXCEPT !.checked = TRUE,
                                           !.result = result,
                                           !.summary = get_violations_summary(result.violations)]
    /\ UNCHANGED <<scenario, running, tick, hospitals, ambulances, supply, government,
                   waiting_patients, gen_tick, current_round, round_result,
                   active_failures, monitor, step_result>>

CheckNext == CheckAllConstraints

CheckSpec == CheckInit /\ [][CheckNext]_vars

\* the check found violations, all of them soft
OnlySoftViolations ==
    /\ validation.checked
    /\ validation.result.violations # <<>>
    /\ \A i \in 1..Len(validation.result.violations) :
          validation.result.violations[i].severity = "warning"

\* C24: when the only violations are soft, they are recorded as warnings,
\* the checked allocation set is reported valid and no proposal is refused
C24_SoftConstraintsDoNotBlock ==
    OnlySoftViolations =>
        /\ validation.summary.warning_count = Len(validation.result.violations)
        /\ validation.summary.is_valid
        /\ validation.result.is_valid
        /\ \A i \in 1..Len(validation.result.violations) :
              validation.result.violations[i].type # "allocation_invalid"

(***************************************************************************)
(* EngineSpec: NegotiationEngine.run_negotiation applied to the messages,  *)
(* the depot message and the waiting list a caller may hand it             *)
(***************************************************************************)
\* longest waiting list handed to the engine
MaxWaiting == 2

\* the orders in which the list hospital_messages may name the hospitals
EngineOrders ==
    {<<>>, <<"hospital_a">>, <<"hospital_a", "hospital_b">>, <<"hospital_b", "hospital_a">>}

EngineRequests ==
    {<<>>, <<[resource |-> "oxygen", quantity |-> 40, urgency |-> "critical"]>>}

\* the keys of the hospital messages that the engine reads; the two
\* hospitals lie at the same distance from location 50 and report the same
\* priority_score
EngineHospitalMessages(order) ==
    { [h \in Range(order) |->
          [ agent_id |-> h,
            available_beds |-> IF h = "hospital_a" THEN ab ELSE bb,
            icu_available |-> IF h = "hospital_a" THEN ai ELSE bi,
            location |-> IF h = "hospital_a" THEN 40 ELSE 60,
            requests |-> IF h = "hospital_a" THEN ra ELSE <<>>,
            priority_num |-> 1,
            priority_den |-> 2 ]] :
      ab \in IF "hospital_a" \in Range(order) THEN 0..MaxFree ELSE {0},
      ai \in IF "hospital_a" \in Range(order) THEN 0..MaxFree ELSE {0},
      ra \in IF "hospital_a" \in Range(order) THEN EngineRequests ELSE {<<>>},
      bb \in IF "hospital_b" \in Range(order) THEN 0..MaxFree ELSE {0},
      bi \in IF "hospital_b" \in Range(order) THEN 0..MaxFree ELSE {0} }

EngineAmbulanceMessages ==
    {EmptyMap} \cup { [a \in {"AMB-1"} |-> [agent_id |-> a, available_slots |-> n]] : n \in {0, 2} }

EngineInventories ==
    {EmptyMap, [food |-> 500, water |-> 1000, oxygen |-> 0, medicine |-> 20],
     [food |-> 500, water |-> 1000, oxygen |-> 50, medicine |-> 20]}

EnginePatientIds == {<<-1, 0>>, <<-1, 1>>, <<0, 0>>}

\* waiting lists of distinct patients, in any order
EngineWaiting ==
    UNION { { [i \in 1..n |-> Patient(ids[i], sev[i], 50)] :
              ids \in {f \in [1..n -> EnginePatientIds] :
                          \A i, j \in 1..n : i # j => f[i] # f[j]},
              sev \in [1..n -> {"critical", "medium"}] } :
            n \in 0..MaxWaiting }

\* the arguments of a call and, after it, its outcome
EngineRound(order, raised, record) ==
    [ order                 |-> order,
      raised                |-> raised,
      round                 |-> record.round,
      waiting               |-> record.waiting,
      hospital_messages     |-> record.hospital_messages,
      ambulance_messages    |-> record.ambulance_messages,
      inventory             |-> record.inventory,
      available             |-> record.available,
      hospital_capacity     |-> record.hospital_capacity,
      patient_assignments   |-> record.patient_assignments,
      supply_allocations    |-> record.supply_allocations,
      ambulance_assignments |-> record.ambulance_assignments ]

EngineInit ==
    /\ \E order \in EngineOrders :
       \E hospital_messages \in EngineHospitalMessages(order),
          ambulance_messages \in EngineAmbulanceMessages,
          inventory \in EngineInventories,
          waiting \in EngineWaiting :
          round_result = EngineRound(order, FALSE,
                                     [NoRound EXCEPT !.waiting = waiting,
                                                     !.hospital_messages = hospital_messages,
                                                     !.ambulance_messages = ambulance_messages,
                                                     !.inventory = inventory])
    /\ scenario = None
    /\ running = FALSE
    /\ tick = 0
    /\ hospitals = EmptyMap
    /\ ambulances = EmptyMap
    /\ supply = None
    /\ government = None
    /\ waiting_patients = <<>>
    /\ gen_tick = 0
    /\ current_round = 0
    /\ active_failures = <<>>
    /\ monitor = NoMonitor
    /\ step_result = NoStep
    /\ validation = NoValidation

\* max(candidates, key=...) raises ValueError on an empty list
max_raises(candidates) == candidates = <<>>

\* the candidates list of _find_best_hospital
Candidates(order, patient, hospital_capacity) ==
    SelectSeq(KeysInOrder(order, hospital_capacity),
              LAMBDA h : IF patient.severity = "critical"
                         THEN hospital_capacity[h].icu > 0
                         ELSE hospital_capacity[h].beds > 0)

\* a _find_best_hospital that hands every candidates list to max()
find_best_raises_unguarded(candidates) == max_raises(candidates)

\* _find_best_hospital: max() is called under `if candidates:` only
find_best_raises(candidates) == candidates # <<>> /\ max_raises(candidates)

\* whether the loop of _assign_patients_to_hospitals raises on the batch
\* that is left
RECURSIVE assign_raises(_, _, _, _)
assign_raises(order, batch, multipliers, matched) ==
    IF batch = <<>> THEN FALSE
    ELSE \/ find_best_raises(Candidates(order, Head(batch), matched.hospital_capacity))
         \/ assign_raises(order, Tail(batch), multipliers,
                          assign_one(Head(batch),
                                     find_best_hospital_of(order, Head(batch),
                                                           matched.hospital_capacity,
                                                           multipliers),
                                     matched))

\* priorities.get("multipliers", {}).get(h_id, 1.0) with no multipliers given
NoMultipliers == [h \in {"hospital_a", "hospital_b"} |-> 100]

\* whether run_negotiation raises on the arguments of the round
run_negotiation_raises(round) ==
    assign_raises(round.order, Batch(SortBySeverity(round.waiting)), NoMultipliers,
                  [assignments |-> <<>>,
                   hospital_capacity |-> HospitalCapacity(round.hospital_messages)])

\* one call of run_negotiation
RunNegotiation ==
    /\ round_result.round = 0
    /\ current_round' = current_round + 1
    /\ round_result' =
          IF run_negotiation_raises(round_result)
          THEN [round_result EXCEPT !.round = current_round + 1, !.raised = TRUE]
          ELSE EngineRound(round_result.order, FALSE,
                           run_negotiation_of(round_result.order, current_round + 1,
                                              round_result.hospital_messages,
                                              round_result.ambulance_messages,
                                              round_result.inventory, NoMultipliers,
                                              round_result.waiting))
    /\ UNCHANGED <<scenario, running, tick, hospitals, ambulances, supply, government,
                   waiting_patients, gen_tick, active_failures, monitor, step_result,
                   validation>>

EngineNext == RunNegotiation

EngineSpec == EngineInit /\ [][EngineNext]_vars

\* a round with no candidate for some part of its work
MissingCandidates ==
    \/ round_result.order = <<>>
    \/ \A h \in DOMAIN round_result.hospital_messages :
          /\ round_result.hospital_messages[h].available_beds = 0
          /\ round_result.hospital_messages[h].icu_available = 0
    \/ DOMAIN round_result.ambulance_messages = {}
    \/ round_result.waiting = <<>>
    \/ DOMAIN round_result.inventory = {}

\* C25: run_negotiation returns a result, with lists that may be empty and
\* that name only what it was given, for every input, those without
\* hospitals, capacity, ambulances, waiting patients or depot stock included
C25_NeverFailsOnMissingCandidates ==
    round_result.round > 0 =>
        /\ ~round_result.raised
        /\ Len(round_result.patient_assignments) <= Len(round_result.waiting)
        /\ \A i \in 1..Len(round_result.patient_assignments) :
              round_result.patient_assignments[i].assigned_hospital
                 \in Range(round_result.order)
        /\ \A i \in 1..Len(round_result.supply_allocations) :
              round_result.supply_allocations[i].hospital_id \in Range(round_result.order)
        /\ \A i \in 1..Len(round_result.ambulance_assignments) :
              round_result.ambulance_assignments[i].ambulance_id
                 \in DOMAIN round_result.ambulance_messages

\* a round with patients waiting, a request pending, no hospital with
\* capacity, no ambulance and an empty depot returned three empty lists
C25_Witness ==
    /\ round_result.round > 0
    /\ ~round_result.raised
    /\ round_result.waiting # <<>>
    /\ round_result.order # <<>>
    /\ \A h \in DOMAIN round_result.hospital_messages :
          /\ round_result.hospital_messages[h].available_beds = 0
          /\ round_result.hospital_messages[h].icu_available = 0
    /\ \E h \in DOMAIN round_result.hospital_messages :
          round_result.hospital_messages[h].requests # <<>>
    /\ DOMAIN round_result.ambulance_messages = {}
    /\ DOMAIN round_result.inventory = {}
    /\ round_result.patient_assignments = <<>>
    /\ round_result.supply_allocations = <<>>
    /\ round_result.ambulance_assignments = <<>>

\* patient p comes before patient q in the order of acuity, then creation
\* tick, then number within the tick
PatientBefore(p, q) ==
    \/ severity_order(p.severity) < severity_order(q.severity)
    \/ /\ severity_order(p.severity) = severity_order(q.severity)
       /\ \/ p.id[1] < q.id[1]
          \/ p.id[1] = q.id[1] /\ p.id[2] < q.id[2]

RECURSIVE InsertPatient(_, _)
InsertPatient(sorted, p) ==
    IF sorted = <<>> THEN <<p>>
    ELSE IF PatientBefore(p, Head(sorted)) THEN <<p>> \o sorted
    ELSE <<Head(sorted)>> \o InsertPatient(Tail(sorted), p)

\* the patients in that order
RECURSIVE InAcuityOrder(_, _)
InAcuityOrder(patients, sorted) ==
    IF patients = <<>> THEN sorted
    ELSE InAcuityOrder(Tail(patients), InsertPatient(sorted, Head(patients)))

\* C26: the round handles the patients in descending acuity, ties by
\* creation tick and then patient id, whatever the order of the list it was
\* given, and its batch is the first ten of that order: its proposals are
\* those of the loop run over that batch
C26_PatientProcessingOrder ==
    (round_result.round > 0 /\ ~round_result.raised) =>
        round_result.patient_assignments =
            assign_loop_of(round_result.order,
                           Batch(InAcuityOrder(round_result.waiting, <<>>)),
                           NoMultipliers,
                           [assignments |-> <<>>,
                            hospital_capacity |->
                                HospitalCapacity(round_result.hospital_messages)]).assignments

\* hospital a scores higher than hospital b for the patient
ScoresHigher(patient, hospital_capacity, a, b) ==
    ScoreNum(patient, hospital_capacity[a], NoMultipliers[a]) * hospital_capacity[b].priority_den
      > ScoreNum(patient, hospital_capacity[b], NoMultipliers[b]) * hospital_capacity[a].priority_den

\* the proposals are, patient by patient of the batch, a hospital of maximal
\* score among the candidates of the tentative map, the same one that the
\* same messages listed in any other order give
RECURSIVE ChoicesHold(_, _, _, _)
ChoicesHold(order, batch, hospital_capacity, proposals) ==
    IF batch = <<>> THEN proposals = <<>>
    ELSE LET patient == Head(batch)
             candidates == Range(Candidates(order, patient, hospital_capacity))
         IN  IF candidates = {}
             THEN ChoicesHold(order, Tail(batch), hospital_capacity, proposals)
             ELSE /\ proposals # <<>>
                  /\ Head(proposals).patient_id = patient.id
                  /\ Head(proposals).assigned_hospital \in candidates
                  /\ \A h \in candidates :
                        ~ScoresHigher(patient, hospital_capacity, h,
                                      Head(proposals).assigned_hospital)
                  /\ \A other \in EngineOrders :
                        Range(other) = Range(order) =>
                            find_best_hospital_of(other, patient, hospital_capacity,
                                                  NoMultipliers)
                               = Head(proposals).assigned_hospital
                  /\ ChoicesHold(order, Tail(batch),
                                 assign_one(patient, Head(proposals).assigned_hospital,
                                            [assignments |-> <<>>,
                                             hospital_capacity |-> hospital_capacity]
                                           ).hospital_capacity,
                                 Tail(proposals))

\* C27: each proposed hospital has the maximal score among the hospitals
\* with the required capacity class in the tentative map, and among several
\* of maximal score the choice depends on the hospital ids only, not on
\* the order of the hospital messages
C27_HospitalChoice ==
    (round_result.round > 0 /\ ~round_result.raised) =>
        ChoicesHold(round_result.order, Batch(SortBySeverity(round_result.waiting)),
                    HospitalCapacity(round_result.hospital_messages),
                    round_result.patient_assignments)

\* the grants are, request by request of the list, one grant for every
\* request whose resource has tentative stock left at its turn
RECURSIVE CoverageHolds(_, _, _)
CoverageHolds(requests, remaining, allocations) ==
    IF requests = <<>> THEN allocations = <<>>
    ELSE LET req == Head(requests)
         IN  IF InventoryGet(remaining, req.resource) <= 0
             THEN CoverageHolds(Tail(requests), remaining, allocations)
             ELSE /\ allocations # <<>>
                  /\ Head(allocations).hospital_id = req.hospital_id
                  /\ Head(allocations).resource = req.resource
                  /\ Head(allocations).urgency = req.urgency
                  /\ Head(allocations).quantity > 0
                  /\ CoverageHolds(Tail(requests),
                                   [remaining EXCEPT ![req.resource] =
                                       @ - Head(allocations).quantity],
                                   Tail(allocations))

\* C28: a round considers every pending request of every hospital, by
\* urgency tier and then by descending stress score of the requester, and
\* leaves a request without a grant only when the tentative stock of its
\* resource is 0 at its turn
C28_SupplyOrderingAndCoverage ==
    round_result.round > 0 =>
        CoverageHolds(SortRequests(all_requests_of(HospitalOrder,
                                                   round_result.hospital_messages), <<>>),
                      round_result.inventory,
                      round_result.supply_allocations)

(***************************************************************************)
(* The patient lifecycle under steps that keep coming                      *)
(***************************************************************************)
\* a call of step() on a running simulator: it ends in StepRaises or in
\* StepCompletes, and either way the tick advances
AdvanceTick == running /\ tick < MaxTick /\ tick' = tick + 1

\* the ticks keep coming: step() is called as long as the simulation runs
FairSpec == Spec /\ WF_tick(AdvanceTick)

\* longest waiting list of a run
MaxPatients == MaxCasualties + MaxTick * MaxInflow

LifecycleStatuses == {"waiting", "assigned", "en_route", "admitted", "discharged"}

\* every patient record carries a status of the lifecycle
StatusInLifecycle ==
    \A i \in 1..Len(waiting_patients) : waiting_patients[i].status \in LifecycleStatuses

\* the round of the step proposed a hospital for patient i and handed the
\* proposal to the commit phase
HandedToCommit(i) ==
    /\ i <= Len(waiting_patients)
    /\ round_result.round > 0
    /\ \E k \in 1..Len(round_result.patient_assignments) :
          round_result.patient_assignments[k].patient_id = waiting_patients[i].id

ReachedDischarged(i) ==
    /\ i <= Len(waiting_patients)
    /\ waiting_patients[i].status = "discharged"

Ledgers(hs, ams, sup, gov) ==
    [hospitals |-> hs, ambulances |-> ams, supply |-> sup, government |-> gov]

\* hospital.update(self.tick) for one hospital
update_hospital(world, h, t) ==
    [world EXCEPT !.hospitals[h] = HospitalUpdate(@, t)]

\* ambulance.update(self.tick) for one ambulance
update_ambulance(world, a, t) ==
    [world EXCEPT !.ambulances[a] = AmbulanceUpdate(@).agent]

\* a depot update that unloads each completed oxygen delivery into the
\* ledger of the hospital it was sent to
update_supply_unloading(world, t) ==
    LET updated == SupplyUpdate(world.supply)
        arrived == SubSeq(updated.completed_deliveries,
                          Len(world.supply.completed_deliveries) + 1,
                          Len(updated.completed_deliveries))
        unloaded(h) ==
            SumSeq([i \in 1..Len(arrived) |->
                      IF arrived[i].destination_id = h /\ arrived[i].supply_type = "oxygen"
                      THEN arrived[i].quantity ELSE 0])
    IN  [world EXCEPT !.supply = updated,
                      !.hospitals = [h \in DOMAIN world.hospitals |->
                                        [world.hospitals[h] EXCEPT
                                            !.oxygen_units = @ + unloaded(h)]]]

\* self.supply.update(self.tick)
update_supply(world, t) ==
    [world EXCEPT !.supply = SupplyUpdate(@)]

\* self.government.update(self.tick)
update_government(world, t) ==
    [world EXCEPT !.government = GovernmentUpdate(@, t)]

RECURSIVE update_hospitals(_, _, _)
update_hospitals(world, ids, t) ==
    IF ids = <<>> THEN world
    ELSE update_hospitals(update_hospital(world, Head(ids), t), Tail(ids), t)

RECURSIVE update_ambulances(_, _, _)
update_ambulances(world, ids, t) ==
    IF ids = <<>> THEN world
    ELSE update_ambulances(update_ambulance(world, Head(ids), t), Tail(ids), t)

\* Step 7 in the order of the code: hospitals, ambulances, depot, authority
update_all_agents(world, t) ==
    update_government(
        update_supply(
            update_ambulances(
                update_hospitals(world, KeysInOrder(HospitalOrder, world.hospitals), t),
                KeysInOrder(AmbulanceOrder, world.ambulances), t),
            t),
        t)

\* hospital ledgers at the start of the phase: hospital_a as configured or
\* with one patient admitted, some of them without oxygen
UpdateHospitalLedgers ==
    { [h \in {"hospital_a", "hospital_b"} |->
          IF h = "hospital_a" THEN ha
          ELSE HospitalAgent(CHOOSE c \in SimHospitalConfigs(h, {<<1, 1, 20000>>}) : TRUE)] :
      ha \in UNION { {HospitalAgent(c), accept_patient(HospitalAgent(c), <<-1, 0>>, 4)} :
                     c \in {c \in HospitalConfigs("hospital_a") : ValidHospitalConfig(c)} } }

RECURSIVE AmbulancesAfter(_, _)
AmbulancesAfter(ams, ticks) ==
    IF ticks = 0 THEN ams
    ELSE AmbulancesAfter([a \in DOMAIN ams |-> AmbulanceUpdate(ams[a]).agent], ticks - 1)

\* ambulance ledgers at the start of the phase: idle, or AMB-1 on a mission
\* given zero to MaxMissions + 2 ticks ago
UpdateAmbulanceLedgers(hs) ==
    LET fleet == [a \in {"AMB-1", "AMB-2"} |-> AmbulanceAgent(AmbulanceConfig(a, TRUE, 90))]
        sent == dispatch_loop(fleet,
                              <<[ambulance_id |-> "AMB-1", patient_id |-> <<-1, 0>>,
                                 hospital_id |-> "hospital_a"]>>,
                              hs, MissionPatients)
    IN  {fleet} \cup {AmbulancesAfter(sent, k) : k \in 0..(MaxMissions + 2)}

RECURSIVE DepotAfter(_, _)
DepotAfter(sup, ticks) ==
    IF ticks = 0 THEN sup ELSE DepotAfter(SupplyUpdate(sup), ticks - 1)

\* depot ledgers at the start of the phase: no delivery, or one delivery of
\* oxygen to hospital_a under way for zero to MaxDeliveries + 5 ticks
UpdateDepotLedgers ==
    LET depot == SupplyAgent(CHOOSE c \in DepotConfigs : c.delivery_vehicles = 1)
        sent == allocate_supply(depot, "oxygen", 40, "hospital_a",
                                HospitalLocation("hospital_a"))
    IN  {depot} \cup {DepotAfter(sent, k) : k \in 0..(MaxDeliveries + 5)}

\* the entities that Step 7 updates
UpdatedEntities ==
    {"hospital_a", "hospital_b", "AMB-1", "AMB-2", "supply_central", "regional_authority"}

\* the state when Step 7 begins: `scenario` keeps the ledgers the phase
\* started from, step_result.pending the entities not updated yet
UpdateInit ==
    /\ \E hs \in UpdateHospitalLedgers :
       \E ams \in UpdateAmbulanceLedgers(hs), sup \in UpdateDepotLedgers :
          /\ hospitals = hs
          /\ ambulances = ams
          /\ supply = sup
          /\ government = GovernmentAgent([disaster_severity |-> 80])
          /\ scenario = Ledgers(hs, ams, sup, GovernmentAgent([disaster_severity |-> 80]))
    /\ tick \in {5, 10}
    /\ running = TRUE
    /\ waiting_patients = MissionPatients
    /\ gen_tick = 0
    /\ current_round = 0
    /\ round_result = NoRound
    /\ active_failures = <<>>
    /\ monitor = NoMonitor
    /\ step_result = [outcome |-> "updating", tick |-> tick, actions |-> <<>>,
                      alerts |-> <<>>, pending |-> UpdatedEntities]
    /\ validation = NoValidation

\* the update of entity e took place
UpdateDone(world, e) ==
    /\ hospitals' = world.hospitals
    /\ ambulances' = world.ambulances
    /\ supply' = world.supply
    /\ government' = world.government
    /\ step_result' = [step_result EXCEPT !.pending = @ \ {e}]
    /\ UNCHANGED <<scenario, running, tick, waiting_patients, gen_tick, current_round,
                   round_result, active_failures, monitor, validation>>

UpdateHospital ==
    \E h \in DOMAIN hospitals \cap step_result.pending :
        UpdateDone(update_hospital(Ledgers(hospitals, ambulances, supply, government),
                                   h, tick), h)

UpdateAmbulance ==
    \E a \in DOMAIN ambulances \cap step_result.pending :
        UpdateDone(update_ambulance(Ledgers(hospitals, ambulances, supply, government),
                                    a, tick), a)

UpdateDepot ==
    /\ "supply_central" \in step_result.pending
    /\ UpdateDone(update_supply(Ledgers(hospitals, ambulances, supply, government), tick),
                  "supply_central")

UpdateAuthority ==
    /\ "regional_authority" \in step_result.pending
    /\ UpdateDone(update_government(Ledgers(hospitals, ambulances, supply, government), tick),
                  "regional_authority")

UpdateNext ==
    \/ UpdateHospital
    \/ UpdateAmbulance
    \/ UpdateDepot
    \/ UpdateAuthority

UpdateSpec == UpdateInit /\ [][UpdateNext]_vars

\* C30: the updates of the hospitals, the ambulances, the depot and the
\* authority of one tick, run in any order, end in the state that the order
\* of the code ends in
C30_UpdatesIndependent ==
    step_result.pending = {} =>
        Ledgers(hospitals, ambulances, supply, government)
            = update_all_agents(scenario, tick)

\* a phase has ended in which a hospital without oxygen discharged a patient
\* and used oxygen, an ambulance moved, a delivery for that hospital arrived
\* and the authority lowered the severity
C30_Witness ==
    /\ step_result.pending = {}
    /\ Len(hospitals["hospital_a"].patients_admitted)
          < Len(scenario.hospitals["hospital_a"].patients_admitted)
    /\ hospitals["hospital_a"].oxygen_units = 0
    /\ hospitals["hospital_b"].oxygen_units < scenario.hospitals["hospital_b"].oxygen_units
    /\ ambulances["AMB-1"].location # scenario.ambulances["AMB-1"].location
    /\ Len(supply.completed_deliveries) > Len(scenario.supply.completed_deliveries)
    /\ government # scenario.government

(***************************************************************************)
(* Properties of the orchestrator (Spec), continued                        *)
(***************************************************************************)
\* C31: a step() on a simulator that is not running returns the error
\* result and leaves the tick, the ledgers, the waiting list and the failure
\* monitor as they were
C31_StepNotRunningChangesNothing ==
    [][(step_result' # step_result /\ step_result'.outcome = "error") =>
          /\ ~running
          /\ UNCHANGED <<scenario, running, tick, hospitals, ambulances, supply, government,
                         waiting_patients, gen_tick, current_round, round_result,
                         active_failures, monitor, validation>>]_vars

\* step() returned the error on a simulator whose initialize() had raised
\* after it built the hospitals
C31_Witness ==
    /\ step_result.outcome = "error"
    /\ ~running
    /\ DOMAIN hospitals # {}

(***************************************************************************)
(* Properties of one hospital ledger (HospitalSpec), continued             *)
(***************************************************************************)
\* the admitted patients of ESI level e
AdmittedAt(h, e) == Len(SelectSeq(h.patients_admitted, LAMBDA p : p.esi_level = e))

\* the largest ESI level among the admitted patients
LargestEsi(h) ==
    CHOOSE e \in 1..5 : AdmittedAt(h, e) > 0 /\ \A f \in (e + 1)..5 : AdmittedAt(h, f) = 0

\* C32: on every tick that is a multiple of 5 a hospital with an admitted
\* patient discharges exactly one, one of the largest ESI level among those
\* admitted, and gives the slot back to the unit the patient was in
C32_DischargeOrder ==
    [][\A h \in DOMAIN hospitals :
          (tick' = tick + 1 /\ tick' % 5 = 0 /\ hospitals[h].patients_admitted # <<>>) =>
              /\ \A e \in 1..5 :
                    AdmittedAt(hospitals'[h], e) =
                       AdmittedAt(hospitals[h], e)
                          - (IF e = LargestEsi(hospitals[h]) THEN 1 ELSE 0)
              /\ hospitals'[h].icu_available =
                    hospitals[h].icu_available
                       + (IF LargestEsi(hospitals[h]) <= 2 THEN 1 ELSE 0)
              /\ hospitals'[h].available_beds =
                    hospitals[h].available_beds
                       + (IF LargestEsi(hospitals[h]) <= 2 THEN 0 ELSE 1)]_vars

(***************************************************************************)
(* Properties of the fleet (AmbulanceSpec), continued                      *)
(***************************************************************************)
\* the transition gives unit a a mission
MissionAssigned(a) ==
    /\ ambulances'[a].target_patient # NoPatient
    /\ \/ ambulances'[a].target_patient # ambulances[a].target_patient
       \/ ambulances'[a].target_hospital # ambulances[a].target_hospital
       \/ ambulances[a].status = "idle"

\* C39: a mission is given only to a unit that is idle, carries less than
\* its capacity and has fuel above the critical level at that moment; a unit
\* on a mission keeps its patient, its hospital and its destination until it
\* is idle again
C39_DispatchGuard ==
    [][\A a \in DOMAIN ambulances \cap DOMAIN ambulances' :
          /\ MissionAssigned(a) =>
                /\ ambulances[a].status = "idle"
                /\ Len(ambulances[a].current_patients) < ambulances[a].capacity
                /\ ambulances[a].fuel > FUEL_CRITICAL_LEVEL
          /\ (ambulances[a].status # "idle" /\ ambulances'[a].status # "idle") =>
                /\ ambulances'[a].target_patient = ambulances[a].target_patient
                /\ ambulances'[a].target_hospital = ambulances[a].target_hospital
                /\ ambulances'[a].destination = ambulances[a].destination]_vars

\* a unit that delivered a patient is under way on a later mission
C39_Witness ==
    \E a \in DOMAIN ambulances :
        /\ ambulances[a].status = "en_route_pickup"
        /\ ambulances[a].patients_delivered > 0
        /\ ambulances[a].destination = hospitals[ambulances[a].target_hospital].location

\* the patient list holds patient_id as assigned to hospital_id, and the
\* hospital has the patient among those admitted
CommittedTo(patients, hs, patient_id, hospital_id) ==
    /\ \E i \in 1..Len(patients) :
          /\ patients[i].id = patient_id
          /\ patients[i].status = "assigned"
          /\ patients[i].assigned_hospital = hospital_id
    /\ hospital_id \in DOMAIN hs
    /\ \E j \in 1..Len(hs[hospital_id].patients_admitted) :
          hs[hospital_id].patients_admitted[j].id = patient_id

GotProposal(p) ==
    \E k \in 1..Len(round_result.patient_assignments) :
        round_result.patient_assignments[k].patient_id = p.id

\* the tentative capacity map of the last round has a hospital with a free
\* slot of the class the engine matches the patient against
EligibleLeft(p) ==
    \E h \in DOMAIN round_result.hospital_capacity :
        IF p.severity = "critical"
        THEN round_result.hospital_capacity[h].icu > 0
        ELSE round_result.hospital_capacity[h].beds > 0

\* C35: when a round emits fewer than BatchCap patient assignments, no
\* waiting patient it left without a proposal has a hospital with a free
\* slot of its class in the tentative capacity map at the end of the round
C35_NoHeadOfLineBlocking ==
    Len(round_result.patient_assignments) < BatchCap =>
        \A i \in 1..Len(round_result.waiting) :
            ~GotProposal(round_result.waiting[i]) => ~EligibleLeft(round_result.waiting[i])

\* C36: every patient assignment a tick's round proposes is one that the
\* target hospital accepts in the commit phase of the tick:
\* can_accept_patient holds for it on the ledger the round was taken from
C36_CommitAcceptsProposals ==
    [][Tick =>
          \A k \in 1..Len(round_result'.patient_assignments) :
              LET pa == round_result'.patient_assignments[k]
              IN  can_accept_patient(hospitals[pa.assigned_hospital],
                                     SEVERITY_TO_ESI(pa.patient_severity))]_vars

(***************************************************************************)
(* Properties of the depot (SupplySpec), continued                         *)
(***************************************************************************)
\* the ticks keep coming: step() calls supply.update at every tick
SupplyFairSpec == SupplySpec /\ WF_vars(UpdateSupply)

\* the vehicles in the pool and those out on a delivery are all the depot has
VehiclesConserved ==
    supply.vehicles_available + Len(supply.active_deliveries) = supply.delivery_vehicles

\* C37: vehicles_available plus the number of deliveries in transit equals
\* delivery_vehicles in every state of the depot, and every delivery that
\* was started completes after finitely many ticks, its vehicle back in the
\* pool
C37_VehiclesConserved ==
    /\ []VehiclesConserved
    /\ \A n \in 1..MaxDeliveries :
          (Deliveries >= n) ~> (Len(supply.completed_deliveries) >= n /\ VehiclesConserved)

\* a delivery has completed and its vehicle is out again on the next one
C37_Witness ==
    /\ supply.completed_deliveries # <<>>
    /\ supply.active_deliveries # <<>>
    /\ supply.vehicles_available = supply.delivery_vehicles - Len(supply.active_deliveries)
    /\ supply.delivery_vehicles = 1

(***************************************************************************)
(* Properties of the orchestrator (Spec): deliveries                       *)
(***************************************************************************)
\* the oxygen of the deliveries to hospital h that are in the list
OxygenFor(deliveries, h) ==
    SumSeq([i \in 1..Len(deliveries) |->
              IF deliveries[i].destination_id = h /\ deliveries[i].supply_type = "oxygen"
              THEN deliveries[i].quantity ELSE 0])

\* the oxygen of the deliveries to hospital h that the transition completes
OxygenArrived(h) ==
    IF running /\ running' /\ tick' = tick + 1
    THEN OxygenFor(supply'.completed_deliveries, h) - OxygenFor(supply.completed_deliveries, h)
    ELSE 0

\* C38: the oxygen taken from the depot for a delivery to a hospital is added
\* to that hospital's oxygen once the delivery completes: after the tick that
\* completes it the hospital holds what its consumption left plus the
\* quantity delivered
C38_DeliveredSuppliesArrive ==
    [][\A h \in DOMAIN hospitals \cap DOMAIN hospitals' :
          OxygenArrived(h) > 0 =>
              hospitals'[h].oxygen_units >=
                  Max(0, hospitals[h].oxygen_units
                           - 5 * current_oxygen_consumption_lpm(hospitals[h]))
                    + OxygenArrived(h)]_vars

(***************************************************************************)
(* Properties of the orchestrator (Spec): re-initialization                *)
(***************************************************************************)
\* the state a complete initialize() leaves, whatever came before it
FreshlyInitialized ==
    /\ running
    /\ tick = 0
    /\ hospitals = [h \in DOMAIN scenario.hospitals |-> HospitalAgent(scenario.hospitals[h])]
    /\ ambulances = [a \in DOMAIN scenario.ambulances |->
                        AmbulanceAgent(scenario.ambulances[a])]
    /\ active_failures = <<>>
    /\ monitor = NoMonitor
    /\ current_round = 0
    /\ round_result = NoRound
    /\ gen_tick = 0
    /\ step_result = NoStep
    /\ \A i \in 1..Len(waiting_patients) : waiting_patients[i].status = "waiting"

\* C40: after initialize(), whatever steps, resets and initializations came
\* before, the simulator is running at tick 0 with one hospital and one
\* ambulance per scenario entry at their configured capacities, no active
\* failure, round counter 0 and nothing left over from the previous run
C40_ReinitializationComplete ==
    [][(Initialize \/ InitializeRaises) => FreshlyInitialized']_vars

\* the same for the scenarios whose supply configuration has the keys
\* initialize() reads
FreshWhenInitializeReturns ==
    [][Initialize => FreshlyInitialized']_vars

(***************************************************************************)
(* Properties of the orchestrator (Spec): admissions                       *)
(***************************************************************************)
\* the hospitals' admission records of the patient
Admissions(hs, patient_id) ==
    SumSeq([k \in 1..Len(HospitalOrder) |->
              IF HospitalOrder[k] \in DOMAIN hs
              THEN Len(SelectSeq(hs[HospitalOrder[k]].patients_admitted,
                                 LAMBDA r : r.id = patient_id))
              ELSE 0])

\* a patient has at most one admission record, an assigned patient stays
\* assigned and is not handed to the next round
NoDoubleAdmission ==
    [][/\ \A i \in 1..Len(waiting_patients') : Admissions(hospitals', waiting_patients'[i].id) <= 1
       /\ \A i \in 1..Len(waiting_patients) :
             (waiting_patients[i].status = "assigned" /\ Tick) =>
                 /\ i <= Len(waiting_patients')
                 /\ waiting_patients'[i].status = "assigned"
                 /\ \A k \in 1..Len(round_result'.waiting) :
                       round_result'.waiting[k].id # waiting_patients[i].id]_vars

\* no patient is ever assigned or admitted: the commit phase raises first
NeverAdmitted ==
    /\ \A i \in 1..Len(waiting_patients) :
          waiting_patients[i].status = "waiting" /\ Admissions(hospitals, waiting_patients[i].id) = 0
    /\ \A h \in DOMAIN hospitals : hospitals[h].patients_admitted = <<>>

====
